---- MODULE Spec2Model ----
(***************************************************************************)
(* Verification model of the Antigravity2API gateway core:                 *)
(*   - TokenManager (account rotation, sticky time-window lock),           *)
(*   - AccountStorage (in-memory Map of accounts per provider),            *)
(*   - the proxy handlers' retry loops (streaming and non-streaming),      *)
(*   - parseSSEStream (SSE / concatenated-JSON stream scanner).            *)
(***************************************************************************)
EXTENDS Integers, Sequences, FiniteSets, TLC

(***************************************************************************)
(* Bounds of the model and program constants                               *)
(***************************************************************************)
\* cap on the number of rotations of a behaviour (antigravityIndex + codexIndex)
MaxIndex == 3
\* cap on the clock Date.now(), in milliseconds
MaxNow == 60000
\* TokenManager.lockWindowMs
lockWindowMs == 60000

Providers == {"antigravity", "codex"}
\* account ids (UUIDs in the program) that may be stored for each provider
AccountIdsOf(p) == IF p = "antigravity" THEN {"a1", "a2", "a3"} ELSE {"c1"}
AllAccountIds == UNION {AccountIdsOf(p) : p \in Providers}
\* clock advances between two calls
Delays == {59999, 60000}
\* lastUsedX = null
Null == "null"
NoLock == [id |-> Null, time |-> 0]
\* errors thrown by getXToken
NoAccounts == "NoAccountsAvailable"
RefreshFailed == "RefreshFailed"
TokenErrors == {NoAccounts, RefreshFailed}

VARIABLES
    accounts,   \* AccountStorage.accounts: provider -> ids in Map insertion order
    index,      \* TokenManager.antigravityIndex / codexIndex
    lastUsed,   \* TokenManager.lastUsedAntigravity / lastUsedCodex
    now,        \* Date.now()
    ret,        \* the last TokenManager / storage call and its outcome
    cleared,    \* provider -> id whose binding markFailed cleared, no select since
    run,        \* provider -> ids returned by the latest consecutive forced selects
    boundAt     \* provider -> time of the rotating select that created the binding

rotVars == <<accounts, index, lastUsed, now, ret, cleared, run, boundAt>>

VARIABLES
    cfgMaxRetries,  \* getConfig().maxRetries
    cfgApiKeys,     \* getConfig().apiKeys
    cfgManagement,  \* getConfig().remoteManagement
    req,            \* request -> the handler's position and locals
    hist,           \* request -> what the handler has done so far
    mgmt            \* the last management / quota request and what it did

cfgVars == <<cfgMaxRetries, cfgApiKeys, cfgManagement>>
ctlVars == <<cfgVars, req, hist, mgmt>>

VARIABLES
    dmx,        \* parseSSEStream's locals: buffer, braceDepth, inString, ...
    yielded,    \* the values parseSSEStream has yielded, in order
    sent,       \* all characters the upstream has delivered so far
    resets,     \* the scanner's overflow resets: what had been sent and yielded
    framing     \* the branch the reads took: line mode seen, branch of the last read

dmxVars == <<dmx, yielded, sent, resets, framing>>

VARIABLES
    tr,         \* the translator's inputs and what it returned for them
    ts          \* createTransformStream: its locals and what it enqueued

trVars == <<tr, ts>>

VARIABLES
    objects,    \* account id -> the account object the program holds for that id
    disk,       \* provider -> file name -> the account written to that file
    ops,        \* process -> the select / refresh / quota operation in flight
    started,    \* number of refreshToken calls made so far
    finished,   \* account id -> the latest-started refresh that was saved
    did,        \* the last step on the store: operation, account, what it returned
    removed,    \* the account ids the operator has deleted
    batch       \* the batch operation in flight: one position per account

stoVars == <<objects, disk, ops, started, finished, did, removed, batch>>

(***************************************************************************)
(* Sequence helpers                                                        *)
(***************************************************************************)
Range(s) == {s[i] : i \in 1..Len(s)}

RECURSIVE SeqRemove(_, _)
SeqRemove(s, x) ==
    IF s = <<>> THEN <<>>
    ELSE IF Head(s) = x THEN SeqRemove(Tail(s), x)
    ELSE <<Head(s)>> \o SeqRemove(Tail(s), x)

LastN(s, n) == IF Len(s) <= n THEN s ELSE SubSeq(s, Len(s) - n + 1, Len(s))

(***************************************************************************)
(* AccountStorage                                                          *)
(***************************************************************************)
\* Map.set(account.id, account): an existing key keeps its position
MapSet(accts, id) == IF id \in Range(accts) THEN accts ELSE Append(accts, id)
\* Map.delete(id)
MapDelete(accts, id) == SeqRemove(accts, id)
\* getXAccount(id) !== undefined
InStore(p, id) == id \in Range(accounts[p])

(***************************************************************************)
(* TokenManager                                                            *)
(***************************************************************************)
\* variant of selectNextXAccount that keeps the index below accounts.length
SelectNextAccount_Wraps(accts, idx) ==
    [account |-> accts[(idx % Len(accts)) + 1], index |-> (idx + 1) % Len(accts)]

\* variant of selectNextXAccount that forgets this.index++
SelectNextAccount_NoStep(accts, idx) ==
    [account |-> accts[(idx % Len(accts)) + 1], index |-> idx]

\* selectNextXAccount: index = this.index % accounts.length; this.index++
SelectNextAccount(accts, idx) ==
    [account |-> accts[(idx % Len(accts)) + 1], index |-> idx + 1]

\* variant of the time-window check with a window one millisecond shorter
WindowOpen_Shorter(lu, t) == t - lu.time < lockWindowMs - 1

\* the time-window check of getXToken: elapsed < this.lockWindowMs
WindowOpen(lu, t) == t - lu.time < lockWindowMs

StickyReuse(p, forceRotate) ==
    /\ ~forceRotate
    /\ lastUsed[p] # NoLock
    /\ WindowOpen(lastUsed[p], now)
    /\ InStore(p, lastUsed[p].id)

\* the binding written after a successful selection
NewBinding(id) == [id |-> id, time |-> now]

\* variant of the empty-pool exit taken after the rotation index was stepped
EmptyPoolOutcome_AfterStep(p) ==
    [result |-> NoAccounts, index |-> index[p] + 1,
     lastUsed |-> lastUsed[p], accounts |-> accounts[p]]

\* getXToken with accounts.length === 0: throws before touching any state
EmptyPoolOutcome(p) ==
    [result |-> NoAccounts, index |-> index[p],
     lastUsed |-> lastUsed[p], accounts |-> accounts[p]]

\* getXToken(forceRotate); refreshOk: ensureValidToken and the save succeed.
\* Result: the outcome and the TokenManager / storage state after the call.
\* (The project_id lookup that follows the binding update only touches the
\* token record and swallows its errors.)
GetToken(p, forceRotate, refreshOk) ==
    IF Len(accounts[p]) = 0
    THEN EmptyPoolOutcome(p)
    ELSE LET reuse == StickyReuse(p, forceRotate)
             sel   == IF reuse
                      THEN [account |-> lastUsed[p].id, index |-> index[p]]
                      ELSE SelectNextAccount(accounts[p], index[p])
         IN  IF ~refreshOk
             THEN [result |-> RefreshFailed, index |-> sel.index,
                   lastUsed |-> lastUsed[p], accounts |-> accounts[p]]
             ELSE [result |-> sel.account, index |-> sel.index,
                   lastUsed |-> NewBinding(sel.account),
                   accounts |-> MapSet(accounts[p], sel.account)]

\* markXAccountFailed(accountId)
MarkFailedBinding(lu, accountId) == IF lu.id = accountId THEN NoLock ELSE lu

Call(op, p, force, result, rotated) ==
    [op |-> op, provider |-> p, force |-> force, result |-> result,
     rotated |-> rotated]
NoCall == Call("none", "none", FALSE, Null, FALSE)

\* the ids returned by the latest consecutive successful forced selects
RunAfter(p, force, result) ==
    IF force /\ result \notin TokenErrors
    THEN LastN(Append(run[p], result), MaxIndex)
    ELSE <<>>

\* the effect of one getXToken call with outcome r on the TokenManager
TokenCall(p, forceRotate, r) ==
    /\ index' = [index EXCEPT ![p] = r.index]
    /\ lastUsed' = [lastUsed EXCEPT ![p] = r.lastUsed]
    /\ accounts' = [accounts EXCEPT ![p] = r.accounts]
    /\ ret' = Call("select", p, forceRotate, r.result, r.index # index[p])
    /\ cleared' = [cleared EXCEPT ![p] = Null]
    /\ run' = [run EXCEPT ![p] = RunAfter(p, forceRotate, r.result)]
    /\ boundAt' = [boundAt EXCEPT ![p] =
                     IF r.result \notin TokenErrors /\ r.index # index[p]
                     THEN now ELSE boundAt[p]]

Select(p, forceRotate, refreshOk) ==
    /\ TokenCall(p, forceRotate, GetToken(p, forceRotate, refreshOk))
    /\ index'["antigravity"] + index'["codex"] <= MaxIndex
    /\ UNCHANGED <<now, ctlVars, dmxVars, trVars, stoVars>>

MarkFailed(p, accountId) ==
    /\ lastUsed' = [lastUsed EXCEPT ![p] = MarkFailedBinding(lastUsed[p], accountId)]
    /\ cleared' = [cleared EXCEPT ![p] =
                     IF lastUsed[p].id = accountId THEN accountId ELSE cleared[p]]
    /\ ret' = Call("markFailed", p, FALSE, accountId, FALSE)
    /\ boundAt' = [boundAt EXCEPT ![p] =
                     IF lastUsed[p].id = accountId THEN 0 ELSE boundAt[p]]
    /\ UNCHANGED <<accounts, index, now, run, ctlVars, dmxVars, trVars, stoVars>>

\* an OAuth login stores a new account (saveXAccount)
SaveAccount(p, id) ==
    /\ id \notin Range(accounts[p])
    /\ accounts' = [accounts EXCEPT ![p] = MapSet(accounts[p], id)]
    /\ ret' = Call("save", p, FALSE, id, FALSE)
    /\ run' = [run EXCEPT ![p] = <<>>]
    /\ UNCHANGED <<index, lastUsed, now, cleared, boundAt, ctlVars, dmxVars, trVars, stoVars>>

\* the operator deletes an account (deleteXAccount)
DeleteAccount(p, id) ==
    /\ id \in Range(accounts[p])
    /\ accounts' = [accounts EXCEPT ![p] = MapDelete(accounts[p], id)]
    /\ ret' = Call("delete", p, FALSE, id, FALSE)
    /\ run' = [run EXCEPT ![p] = <<>>]
    /\ UNCHANGED <<index, lastUsed, now, cleared, boundAt, ctlVars, dmxVars, trVars, stoVars>>

Tick(d) ==
    /\ now + d <= MaxNow
    /\ now' = now + d
    /\ ret' = NoCall
    /\ UNCHANGED <<accounts, index, lastUsed, cleared, run, boundAt, ctlVars, dmxVars, trVars, stoVars>>

(***************************************************************************)
(* Proxy handlers: AntigravityProxyHandler / CodexProxyHandler             *)
(***************************************************************************)
\* largest configured maxRetries explored
MaxRetriesCfg == 2
\* DEFAULT_CONFIG.maxRetries, also the fallback of `getConfig().maxRetries || 3`
DefaultMaxRetries == 3

Requests == {"r1"}
\* HTTP statuses the upstream answers with
Statuses == {200, 400, 401, 403, 429, 500}
\* what one upstream call ends with: a status, or 0 when fetch rejects or the
\* body of an ok response cannot be decoded
Outcomes == Statuses \cup {0}

\* thrown errors: UpstreamError / CodexUpstreamError carry the status code
UpstreamErr(status) == [kind |-> "UpstreamError", status |-> status]
PlainErr(message) == [kind |-> message, status |-> 0]
NoError == [kind |-> "none", status |-> 0]
Ok200 == [kind |-> "ok", status |-> 200]
\* the error an upstream outcome other than 200 is thrown as
SendError(o) == IF o = 0 THEN PlainErr("NetErr") ELSE UpstreamErr(o)

\* this.maxRetries = getConfig().maxRetries || 3
maxRetries == IF cfgMaxRetries = 0 THEN DefaultMaxRetries ELSE cfgMaxRetries

\* variant of isRetryable that leaves out status 500 itself
isRetryable_Above500(e) == e.status > 500 \/ e.status = 429

\* UpstreamError.isRetryable / CodexUpstreamError.isRetryable
isRetryable(e) == e.status >= 500 \/ e.status = 429

\* UpstreamError.isAuthError / CodexUpstreamError.isAuthError
isAuthError(e) == e.status = 401 \/ e.status = 403

\* error instanceof UpstreamError (the other errors are plain Errors)
isUpstreamError(e) == e.kind = "UpstreamError"

\* the catch blocks' rethrow test: not retryable and not an auth error
Rethrown(e) == isUpstreamError(e) /\ ~isRetryable(e) /\ ~isAuthError(e)

\* variant of the catch blocks' bookkeeping that keeps the first error
RecordError_KeepFirst(prev, e) == IF prev = NoError THEN e ELSE prev

\* lastError = error as Error
RecordError(prev, e) == e

\* handleChatCompletion's catch: errorResponse(error.statusCode, ...,
\* "upstream_error") for an upstream error, errorResponse(500, ...) otherwise
ErrorResponse(e) ==
    [kind |-> "error", status |-> IF isUpstreamError(e) THEN e.status ELSE 500,
     cause |-> e]

\* the Authorization headers a client may send: none, or a text made of an
\* optional scheme and a key
NoHeader == [present |-> FALSE, text |-> <<>>]
HeaderOf(text) == [present |-> TRUE, text |-> text]

NoResponse == [kind |-> "none", status |-> 0, cause |-> NoError]
IdleReq ==
    [pc |-> "idle", provider |-> "none", stream |-> FALSE, retry |-> 0,
     token |-> Null, lastError |-> NoError, response |-> NoResponse,
     body |-> "none", header |-> NoHeader,
     messages |-> [present |-> FALSE, length |-> 0]]
\* no management request yet
NoMgmt ==
    [op |-> "none", xKey |-> NoHeader, authorization |-> NoHeader, status |-> 0,
     upstream |-> 0, saves |-> 0]
\* getConfig().remoteManagement is undefined
NoManagement == [enabled |-> FALSE, secretKey |-> Null]
NoHist == [outcomes |-> <<>>, selects |-> <<>>, calls |-> 0]

Headers ==
    {NoHeader, HeaderOf(<<"Bearer ", "sk-1">>), HeaderOf(<<"sk-1">>),
     HeaderOf(<<"Bearer ", "sk-2">>)}
\* the allow-lists explored: none configured (DEFAULT_CONFIG), or one key
ApiKeyLists == {{}, {<<"sk-1">>}}

\* authHeader.toLowerCase() of the first word of a header
ToLowerCase(word) == IF word \in {"Bearer ", "BEARER "} THEN "bearer " ELSE word

\* variant of validateApiKey that accepts a request without a header
validateApiKey_HeaderOptional(authHeader) ==
    IF cfgApiKeys = {} THEN TRUE
    ELSE IF ~authHeader.present \/ authHeader.text = <<>> THEN TRUE
    ELSE LET key == IF ToLowerCase(Head(authHeader.text)) = "bearer "
                    THEN Tail(authHeader.text) ELSE authHeader.text
         IN  key \in cfgApiKeys

\* validateApiKey(authHeader)
validateApiKey(authHeader) ==
    IF cfgApiKeys = {} THEN TRUE
    ELSE IF ~authHeader.present \/ authHeader.text = <<>> THEN FALSE
    ELSE LET key == IF ToLowerCase(Head(authHeader.text)) = "bearer "
                    THEN Tail(authHeader.text) ELSE authHeader.text
         IN  key \in cfgApiKeys

\* request.messages: undefined, [] or a non-empty array
MessagesFields ==
    {[present |-> FALSE, length |-> 0], [present |-> TRUE, length |-> 0],
     [present |-> TRUE, length |-> 1]}

\* variant of the messages check that only rejects a missing field
MessagesRejected_MissingOnly(messages) == ~messages.present

\* !request.messages || request.messages.length === 0
MessagesRejected(messages) == ~messages.present \/ messages.length = 0

\* the handler the route picks: isCodexModel(model), else isAntigravityModel
\* or the default, both the Antigravity handler
Models == {"gpt-5.2", "gemini-2.5-pro", "unknown-model"}
isCodexModelName(model) == model = "gpt-5.2"
HandlerOf(model) == IF isCodexModelName(model) THEN "codex" ELSE "antigravity"

\* the JSON bodies a client may post; c.req.json() throws on a malformed one
MalformedBody ==
    [valid |-> FALSE, model |-> "none", stream |-> FALSE,
     messages |-> [present |-> FALSE, length |-> 0]]
Bodies ==
    {MalformedBody} \cup
    {[valid |-> TRUE, model |-> m, stream |-> st, messages |-> ms] :
        m \in Models, st \in BOOLEAN, ms \in MessagesFields}

RouteError(status, message) ==
    [kind |-> "error", status |-> status, cause |-> PlainErr(message)]

\* POST /v1/chat/completions up to the handler's first await: the API-key
\* check, the body, the routing by model, then handleChatCompletion's
\* messages check before the streaming or the non-streaming loop
Start(r, authHeader, body) ==
    LET rq == [req[r] EXCEPT !.header = authHeader] IN
    /\ req[r].pc = "idle"
    /\ req' = [req EXCEPT ![r] =
                 IF ~validateApiKey(authHeader)
                 THEN [rq EXCEPT !.pc = "done",
                                 !.response = RouteError(401, "Invalid API key")]
                 ELSE IF ~body.valid
                 THEN [rq EXCEPT !.pc = "done",
                                 !.response = RouteError(500, "Internal server error")]
                 ELSE IF MessagesRejected(body.messages)
                 THEN [rq EXCEPT !.pc = "done", !.provider = HandlerOf(body.model),
                                 !.stream = body.stream, !.messages = body.messages,
                                 !.response = RouteError(400, "messages is required")]
                 ELSE [rq EXCEPT !.pc = "select", !.provider = HandlerOf(body.model),
                                 !.stream = body.stream, !.messages = body.messages]]
    /\ UNCHANGED <<rotVars, cfgVars, mgmt, hist, dmxVars, trVars, stoVars>>

\* the end of a catch block and the loop header: rethrow, next attempt, or
\* `throw lastError` after the loop
AfterCatch(rq, e) ==
    IF Rethrown(e)
    THEN [rq EXCEPT !.pc = "done", !.response = ErrorResponse(e)]
    ELSE IF rq.retry + 1 < maxRetries
    THEN [rq EXCEPT !.pc = "select", !.retry = @ + 1]
    ELSE [rq EXCEPT !.pc = "done", !.retry = @ + 1,
                    !.response = ErrorResponse(rq.lastError)]

\* the catch block of one attempt that failed with error e
Catch(rq, e) ==
    LET rq1 == [rq EXCEPT !.lastError = RecordError(rq.lastError, e)] IN
    IF ~rq.stream /\ isUpstreamError(e) /\ isAuthError(e)
    THEN [rq1 EXCEPT !.pc = "mark"]
    ELSE AfterCatch(rq1, e)

\* one attempt's `await this.tokenManager.getXToken(retry > 0)`
AttemptSelect(r, refreshOk) ==
    LET rq == req[r]
        force == rq.retry > 0
        t  == GetToken(rq.provider, force, refreshOk)
    IN  /\ rq.pc = "select"
        /\ TokenCall(rq.provider, force, t)
        /\ req' = [req EXCEPT ![r] =
                     IF t.result \in TokenErrors
                     THEN Catch(rq, PlainErr(t.result))
                     ELSE [rq EXCEPT !.pc = "send", !.token = t.result]]
        /\ hist' = [hist EXCEPT ![r].selects = Append(@, force),
                                ![r].outcomes =
                                    IF t.result \in TokenErrors
                                    THEN Append(@, PlainErr(t.result)) ELSE @]
        /\ UNCHANGED <<now, cfgVars, mgmt, dmxVars, trVars, stoVars>>

\* generateContent / streamGenerateContent / sendRequest answer with outcome o
\* and the handler translates the response or catches the error
AttemptSend(r, o) ==
    LET rq == req[r] IN
    /\ rq.pc = "send"
    /\ req' = [req EXCEPT ![r] =
                 IF o # 200 THEN Catch(rq, SendError(o))
                 ELSE IF rq.stream
                 THEN [rq EXCEPT !.pc = "stream", !.body = "open",
                                 !.response = [kind |-> "sse", status |-> 200,
                                               cause |-> NoError]]
                 ELSE [rq EXCEPT !.pc = "done",
                                 !.response = [kind |-> "json", status |-> 200,
                                               cause |-> NoError]]]
    /\ hist' = [hist EXCEPT ![r].calls = @ + 1,
                            ![r].outcomes =
                                Append(@, IF o = 200 THEN Ok200 ELSE SendError(o))]
    /\ UNCHANGED <<rotVars, cfgVars, mgmt, dmxVars, trVars, stoVars>>

\* the non-streaming catch on an auth error:
\* getXToken(false).catch(() => null), then markXAccountFailed(account.id)
MarkAfterAuthError(r, refreshOk) ==
    LET rq == req[r]
        p  == rq.provider
        t  == GetToken(p, FALSE, refreshOk)
        ok == t.result \notin TokenErrors
    IN  /\ rq.pc = "mark"
        /\ index' = [index EXCEPT ![p] = t.index]
        /\ accounts' = [accounts EXCEPT ![p] = t.accounts]
        /\ lastUsed' = [lastUsed EXCEPT ![p] =
                          IF ok THEN MarkFailedBinding(t.lastUsed, t.result)
                          ELSE t.lastUsed]
        /\ ret' = IF ok THEN Call("markFailed", p, FALSE, t.result, FALSE)
                  ELSE Call("select", p, FALSE, t.result, t.index # index[p])
        /\ cleared' = [cleared EXCEPT ![p] = IF ok THEN t.result ELSE Null]
        /\ run' = [run EXCEPT ![p] = <<>>]
        /\ boundAt' = [boundAt EXCEPT ![p] = IF ok THEN 0 ELSE boundAt[p]]
        /\ req' = [req EXCEPT ![r] = AfterCatch(rq, rq.lastError)]
        /\ hist' = [hist EXCEPT ![r].selects = Append(@, FALSE)]
        /\ UNCHANGED <<now, cfgVars, mgmt, dmxVars, trVars, stoVars>>

\* variant of the stream's failure path that starts another attempt
StreamFailure_Retry(rq) ==
    [rq EXCEPT !.pc = "select", !.retry = @ + 1, !.body = "errored"]

\* createTransformStream's catch: controller.error(error); for Codex the
\* upstream body is the response body and fails with it
StreamFailure(rq) == [rq EXCEPT !.pc = "done", !.body = "errored"]

\* the response was returned and its body is forwarded; reading or
\* translating the upstream stream fails (failed) or the stream ends
StreamStep(r, failed) ==
    /\ req[r].pc = "stream"
    /\ req' = [req EXCEPT ![r] =
                 IF failed THEN StreamFailure(@)
                 ELSE [@ EXCEPT !.pc = "done", !.body = "closed"]]
    /\ UNCHANGED <<rotVars, cfgVars, mgmt, hist, dmxVars, trVars, stoVars>>

\* time passes while a request is being served
CtlTick(d) ==
    /\ now + d <= MaxNow
    /\ \E r \in Requests : req[r].pc \notin {"idle", "done"}
    /\ now' = now + d
    /\ UNCHANGED <<accounts, index, lastUsed, ret, cleared, run, boundAt, ctlVars, dmxVars, trVars, stoVars>>

(***************************************************************************)
(* parseSSEStream: the upstream stream demultiplexer                       *)
(***************************************************************************)
\* the buffer ceiling (5 MiB in the program), scaled down to characters
BufferLimit == 2
\* the longest upstream stream explored, in characters
MaxStream == 5
\* the longest upstream stream explored when it arrives in whole pieces
MaxLineStream == 14

\* the characters the upstream sends: braces, quote, backslash, any other
DemuxAlphabet == {"{", "}", "\"", "\\", "x"}
Whitespace == {" ", "\n", "\t", "\r"}
DataMarker == <<"d", "a", "t", "a", ":">>
DataPrefix == <<"d", "a", "t", "a", ":", " ">>
DoneText == <<"[", "D", "O", "N", "E", "]">>

\* String.prototype.startsWith / includes / trim / split("\n")
StartsWith(str, pre) ==
    Len(str) >= Len(pre) /\ SubSeq(str, 1, Len(pre)) = pre
Includes(str, sub) ==
    \E i \in 1..(Len(str) - Len(sub) + 1) : SubSeq(str, i, i + Len(sub) - 1) = sub
RECURSIVE TrimLeft(_)
TrimLeft(str) ==
    IF str # <<>> /\ Head(str) \in Whitespace THEN TrimLeft(Tail(str)) ELSE str
RECURSIVE TrimRight(_)
TrimRight(str) ==
    IF str # <<>> /\ str[Len(str)] \in Whitespace
    THEN TrimRight(SubSeq(str, 1, Len(str) - 1)) ELSE str
Trim(str) == TrimRight(TrimLeft(str))
RECURSIVE SplitLines(_, _)
SplitLines(str, cur) ==
    IF str = <<>> THEN <<cur>>
    ELSE IF Head(str) = "\n" THEN <<cur>> \o SplitLines(Tail(str), <<>>)
    ELSE SplitLines(Tail(str), Append(cur, Head(str)))

\* JSON text, read once from left to right: the top-level objects of a text,
\* and whether the text is nothing but well-formed objects and separators
RECURSIVE JsonWalk(_, _, _, _, _, _, _, _)
JsonWalk(str, i, depth, inStr, esc, start, objs, ok) ==
    IF i > Len(str)
    THEN [ok |-> ok /\ depth = 0 /\ ~inStr, objs |-> objs]
    ELSE LET c == str[i] IN
         IF inStr
         THEN IF esc THEN JsonWalk(str, i + 1, depth, TRUE, FALSE, start, objs, ok)
              ELSE IF c = "\\"
              THEN JsonWalk(str, i + 1, depth, TRUE, TRUE, start, objs, ok)
              ELSE IF c = "\""
              THEN JsonWalk(str, i + 1, depth, FALSE, FALSE, start, objs, ok)
              ELSE JsonWalk(str, i + 1, depth, TRUE, FALSE, start, objs, ok)
         ELSE IF c = "{"
         THEN JsonWalk(str, i + 1, depth + 1, FALSE, FALSE,
                       IF depth = 0 THEN i ELSE start, objs, ok)
         ELSE IF c = "}"
         THEN IF depth = 0
              THEN [ok |-> FALSE, objs |-> objs]
              ELSE JsonWalk(str, i + 1, depth - 1, FALSE, FALSE, start,
                            IF depth = 1 THEN Append(objs, SubSeq(str, start, i))
                            ELSE objs, ok)
         ELSE IF c = "\""
         THEN JsonWalk(str, i + 1, depth, TRUE, FALSE, start, objs, ok /\ depth > 0)
         ELSE IF c = "\\"
         THEN [ok |-> FALSE, objs |-> objs]
         ELSE JsonWalk(str, i + 1, depth, FALSE, FALSE, start, objs, ok)

JsonRead(str) == JsonWalk(str, 1, 0, FALSE, FALSE, 0, <<>>, TRUE)
\* JSON.parse(text) does not throw: the text is one well-formed object
ParseOk(text) == JsonRead(Trim(text)).ok /\ JsonRead(Trim(text)).objs = <<Trim(text)>>

\* the locals of parseSSEStream before the first read
ScannerInit ==
    [buffer |-> <<>>, braceDepth |-> 0, inString |-> FALSE, escaped |-> FALSE,
     jsonStartIndex |-> -1, finished |-> FALSE]

\* the SSE branch: the lines of the buffer but the last, in order; a
\* `data: [DONE]` line ends the generator
RECURSIVE SseLines(_, _, _)
SseLines(lines, k, out) ==
    IF k > Len(lines) - 1 THEN [out |-> out, finished |-> FALSE]
    ELSE LET trimmed == Trim(lines[k]) IN
         IF StartsWith(trimmed, DataPrefix)
         THEN LET data == SubSeq(trimmed, 7, Len(trimmed)) IN
              IF data = DoneText THEN [out |-> out, finished |-> TRUE]
              ELSE SseLines(lines, k + 1,
                            IF ParseOk(data) THEN Append(out, data) ELSE out)
         ELSE SseLines(lines, k + 1, out)

\* the JSON scanner: `let i = 0; while (i < buffer.length)` over the whole
\* buffer with the braceDepth, inString, escaped and jsonStartIndex left by
\* the previous read; i is the 1-based position of buffer[i - 1]
RECURSIVE ScanLoop(_, _, _)
ScanLoop(st, i, out) ==
    IF i > Len(st.buffer) THEN [st |-> st, out |-> out]
    ELSE LET char == st.buffer[i] IN
         IF ~st.inString
         THEN IF char = "{"
              THEN ScanLoop([st EXCEPT !.braceDepth = @ + 1,
                                       !.jsonStartIndex =
                                           IF st.braceDepth = 0 THEN i - 1 ELSE @],
                            i + 1, out)
              ELSE IF char = "}"
              THEN IF st.braceDepth - 1 = 0 /\ st.jsonStartIndex # -1
                   THEN LET jsonStr == SubSeq(st.buffer, st.jsonStartIndex + 1, i) IN
                        ScanLoop([st EXCEPT !.braceDepth = 0,
                                            !.buffer = SubSeq(@, i + 1, Len(@)),
                                            !.jsonStartIndex = -1],
                                 1,
                                 IF ParseOk(jsonStr) THEN Append(out, jsonStr) ELSE out)
                   ELSE ScanLoop([st EXCEPT !.braceDepth = @ - 1], i + 1, out)
              ELSE IF char = "\""
              THEN ScanLoop([st EXCEPT !.inString = TRUE], i + 1, out)
              ELSE ScanLoop(st, i + 1, out)
         ELSE IF char = "\\"
              THEN ScanLoop([st EXCEPT !.escaped = ~@], i + 1, out)
              ELSE IF char = "\"" /\ ~st.escaped
              THEN ScanLoop([st EXCEPT !.inString = FALSE], i + 1, out)
              ELSE ScanLoop([st EXCEPT !.escaped = FALSE], i + 1, out)

\* `if (buffer.length > 1024 * 1024 * 5)`: the buffer is too large
Overflows(st) == Len(st.buffer) > BufferLimit

\* the 5MB branch: buffer = ""; braceDepth = 0; jsonStartIndex = -1
OverflowReset(st) ==
    [st EXCEPT !.buffer = <<>>, !.braceDepth = 0, !.jsonStartIndex = -1]

\* one iteration of the read loop on the characters of one read
ReadChunk(st, chunk) ==
    LET st1 == [st EXCEPT !.buffer = @ \o chunk] IN
    IF StartsWith(st1.buffer, DataMarker) \/ Includes(st1.buffer, <<"\n">> \o DataMarker)
    THEN LET lines == SplitLines(st1.buffer, <<>>)
             r == SseLines(lines, 1, <<>>)
         IN  [st |-> [st1 EXCEPT !.buffer = lines[Len(lines)],
                                 !.finished = r.finished],
              out |-> r.out, reset |-> FALSE, lines |-> TRUE]
    ELSE LET r == ScanLoop(st1, 1, <<>>) IN
         IF Overflows(r.st)
         THEN [st |-> OverflowReset(r.st), out |-> r.out, reset |-> TRUE,
               lines |-> FALSE]
         ELSE [st |-> r.st, out |-> r.out, reset |-> FALSE, lines |-> FALSE]

\* what one read may deliver: any non-empty run of characters
RECURSIVE SeqsUpTo(_, _)
SeqsUpTo(S, n) ==
    IF n = 0 THEN {<<>>}
    ELSE LET shorter == SeqsUpTo(S, n - 1) IN
         shorter \cup {Append(q, c) : q \in {t \in shorter : Len(t) = n - 1}, c \in S}

\* `const { done, value } = await reader.read()` with done = false, on an
\* upstream that sends at most `limit` characters
ReadUpTo(chunk, limit) ==
    LET r == ReadChunk(dmx, chunk) IN
    /\ ~dmx.finished
    /\ chunk # <<>>
    /\ Len(sent) + Len(chunk) <= limit
    /\ dmx' = r.st
    /\ yielded' = yielded \o r.out
    /\ sent' = sent \o chunk
    /\ resets' = IF r.reset
                 THEN [count |-> resets.count + 1, sentAt |-> Len(sent'), yieldedAt |-> Len(yielded'),
                       readsAfter |-> 0]
                 ELSE [resets EXCEPT !.readsAfter = @ + 1]
    /\ framing' = [detected |-> framing.detected \/ r.lines,
                   last |-> IF r.lines THEN "lines" ELSE "json"]
    /\ UNCHANGED <<rotVars, ctlVars, trVars, stoVars>>

\* a read that delivers any run of characters of the JSON framing
Read(chunk) == ReadUpTo(chunk, MaxStream)

\* what a read delivers when the upstream sends whole pieces of either
\* framing: a `data:` marker, a `data: {}` event line, the `data: [DONE]`
\* line, a line end, an object, an opening brace
DataLine == DataPrefix \o <<"{", "}", "\n">>
DoneLine == DataPrefix \o DoneText \o <<"\n">>
Pieces == {DataMarker, DataLine, DoneLine, <<"\n">>, <<"{", "}">>, <<"{">>}
ReadPiece(chunk) == ReadUpTo(chunk, MaxLineStream)

\* `if (done) break`: the upstream closed the stream
EndOfStream ==
    /\ ~dmx.finished
    /\ dmx' = [dmx EXCEPT !.finished = TRUE]
    /\ UNCHANGED <<yielded, sent, resets, framing, rotVars, ctlVars, trVars, stoVars>>

DmxIdle ==
    /\ dmx = ScannerInit
    /\ yielded = <<>>
    /\ sent = <<>>
    /\ resets = [count |-> 0, sentAt |-> 0, yieldedAt |-> 0, readsAfter |-> 0]
    /\ framing = [detected |-> FALSE, last |-> "none"]

(***************************************************************************)
(* Translator: native responses and fragments to OpenAI messages / chunks  *)
(***************************************************************************)
\* the longest fragment sequence of one upstream stream explored
MaxFragments == 2

\* strings are sequences of characters, so that += is \o
\* a GeminiPart: text (possibly undefined), the thought flag, a functionCall
\* or a functionResponse (by the function's name)
TextPart(chars, thought) ==
    [hasText |-> TRUE, text |-> chars, thought |-> thought,
     functionCall |-> "none", functionResponse |-> "none"]
CallPart(name) ==
    [hasText |-> FALSE, text |-> <<>>, thought |-> FALSE,
     functionCall |-> name, functionResponse |-> "none"]
ResponsePart(name) ==
    [hasText |-> FALSE, text |-> <<>>, thought |-> FALSE,
     functionCall |-> "none", functionResponse |-> name]
\* the content.parts arrays explored ([] also stands for a missing array)
PartLists ==
    {<<>>,
     <<TextPart(<<"a">>, FALSE)>>,
     <<TextPart(<<"b">>, FALSE)>>,
     <<TextPart(<<"t">>, TRUE)>>,
     <<TextPart(<<>>, FALSE)>>,
     <<CallPart("f")>>,
     <<TextPart(<<"a">>, FALSE), TextPart(<<"b">>, FALSE)>>,
     <<TextPart(<<"t">>, TRUE), TextPart(<<"a">>, FALSE)>>,
     <<TextPart(<<"a">>, FALSE), CallPart("f")>>,
     <<CallPart("f"), CallPart("g")>>}
\* candidate.finishReason: undefined, or a native reason
Absent == ""
NativeReasons ==
    {Absent, "STOP", "END_TURN", "MAX_TOKENS", "SAFETY", "OTHER", "Stop"}
Candidate(parts, reason) == [parts |-> parts, finishReason |-> reason]
\* a parsed object of the upstream stream: {response: {candidates}}, the bare
\* {candidates}, or something else
Fragment(shape, candidates) == [shape |-> shape, candidates |-> candidates]
Fragments ==
    {Fragment("wrapped", <<Candidate(ps, fr)>>) : ps \in PartLists, fr \in NativeReasons}
    \cup {Fragment("bare", <<Candidate(<<TextPart(<<"b">>, FALSE)>>, Absent)>>),
          Fragment("wrapped", <<>>), Fragment("other", <<>>)}
\* an AntigravityResponse: response.candidates
NativeResponse(candidates) == [candidates |-> candidates]
\* content.parts arrays with a function call next to an empty text or to
\* reasoning text
MixedPartLists ==
    {<<TextPart(<<>>, FALSE), CallPart("f")>>,
     <<TextPart(<<"t">>, TRUE), CallPart("f")>>,
     <<CallPart("f"), TextPart(<<"a">>, FALSE), TextPart(<<"t">>, TRUE)>>}
NativeResponses ==
    {NativeResponse(<<>>)} \cup
    {NativeResponse(<<Candidate(ps, fr)>>) :
        ps \in PartLists \cup MixedPartLists, fr \in NativeReasons}

\* reason.toUpperCase()
ToUpperCase(reason) == IF reason \in {"Stop", "stop"} THEN "STOP" ELSE reason

\* variant of mapFinishReason that reports SAFETY as a normal stop
mapFinishReason_SafetyStops(reason) ==
    LET r == ToUpperCase(reason) IN
    IF r \in {"STOP", "END_TURN", "SAFETY"} THEN "stop"
    ELSE IF r \in {"MAX_TOKENS", "LENGTH"} THEN "length"
    ELSE IF r \in {"FUNCTION_CALL", "TOOL_CALLS"} THEN "tool_calls"
    ELSE IF r \in {"RECITATION", "BLOCKLIST"} THEN "content_filter"
    ELSE Null

\* mapFinishReason
mapFinishReason(reason) ==
    LET r == ToUpperCase(reason) IN
    IF r \in {"STOP", "END_TURN"} THEN "stop"
    ELSE IF r \in {"MAX_TOKENS", "LENGTH"} THEN "length"
    ELSE IF r \in {"FUNCTION_CALL", "TOOL_CALLS"} THEN "tool_calls"
    ELSE IF r \in {"SAFETY", "RECITATION", "BLOCKLIST"} THEN "content_filter"
    ELSE Null

\* part.text !== undefined / the truthiness of part.text
TextDefined(part) == part.hasText
TextTruthy(part) == part.hasText /\ part.text # <<>>
\* the loops over content.parts: textContent, reasoningContent and toolCalls;
\* truthy: whether the += is guarded by the truthiness of part.text or by
\* part.text !== undefined
RECURSIVE TextOf(_, _, _)
TextOf(parts, thought, truthy) ==
    IF parts = <<>> THEN <<>>
    ELSE (IF (IF truthy THEN TextTruthy(Head(parts)) ELSE TextDefined(Head(parts)))
             /\ Head(parts).thought = thought
          THEN Head(parts).text ELSE <<>>)
         \o TextOf(Tail(parts), thought, truthy)
RECURSIVE ToolCallsOf(_)
ToolCallsOf(parts) ==
    IF parts = <<>> THEN <<>>
    ELSE (IF Head(parts).functionCall # "none"
          THEN <<Head(parts).functionCall>> ELSE <<>>)
         \o ToolCallsOf(Tail(parts))

\* message.content / delta.content: null or undefined, or a string
NoContent == [isNull |-> TRUE, text |-> <<>>]
Content(chars) == [isNull |-> FALSE, text |-> chars]

\* variant of translateFromAntigravity that leaves content: textContent || null
\* as it is when there is no tool call either
translateFromAntigravity_KeepsNull(response) ==
    LET candidate == IF response.candidates = <<>> THEN Candidate(<<>>, Absent)
                     ELSE response.candidates[1]
        textContent == TextOf(candidate.parts, FALSE, FALSE)
        reasoningContent == TextOf(candidate.parts, TRUE, FALSE)
        toolCalls == ToolCallsOf(candidate.parts)
    IN  [role |-> "assistant",
         content |-> IF textContent # <<>> THEN Content(textContent)
                     ELSE NoContent,
         reasoning_content |-> IF reasoningContent # <<>>
                               THEN Content(reasoningContent) ELSE NoContent,
         tool_calls |-> toolCalls,
         finish_reason |->
             IF toolCalls # <<>> THEN "tool_calls"
             ELSE mapFinishReason(IF candidate.finishReason = Absent THEN "STOP"
                                  ELSE candidate.finishReason)]

\* translateFromAntigravity: choices[0].message and choices[0].finish_reason
translateFromAntigravity(response) ==
    LET candidate == IF response.candidates = <<>> THEN Candidate(<<>>, Absent)
                     ELSE response.candidates[1]
        textContent == TextOf(candidate.parts, FALSE, FALSE)
        reasoningContent == TextOf(candidate.parts, TRUE, FALSE)
        toolCalls == ToolCallsOf(candidate.parts)
    IN  [role |-> "assistant",
         content |-> IF textContent # <<>> THEN Content(textContent)
                     ELSE IF toolCalls = <<>> THEN Content(<<>>)
                     ELSE NoContent,
         reasoning_content |-> IF reasoningContent # <<>>
                               THEN Content(reasoningContent) ELSE NoContent,
         tool_calls |-> toolCalls,
         finish_reason |->
             IF toolCalls # <<>> THEN "tool_calls"
             ELSE mapFinishReason(IF candidate.finishReason = Absent THEN "STOP"
                                  ELSE candidate.finishReason)]

\* what is enqueued on the client's stream: chunks and the [DONE] line
Chunk(role, content, reasoning, toolCalls, finish) ==
    [kind |-> "chunk", role |-> role, content |-> content,
     reasoning_content |-> reasoning, tool_calls |-> toolCalls,
     finish_reason |-> finish]
\* translateStreamChunk returned null
NoChunk == [Chunk("none", NoContent, NoContent, <<>>, Null) EXCEPT !.kind = "none"]
DoneEvent == [Chunk("none", NoContent, NoContent, <<>>, Null) EXCEPT !.kind = "done"]
\* createInitialChunk / createFinalChunk
createInitialChunk == Chunk("assistant", Content(<<>>), NoContent, <<>>, Null)
createFinalChunk == Chunk("none", NoContent, NoContent, <<>>, "stop")

\* variant of translateStreamChunk without the test that suppresses a chunk
\* with an empty delta and no finish reason
translateStreamChunk_KeepsEmpty(chunk) ==
    IF chunk.shape = "other" \/ chunk.candidates = <<>> THEN NoChunk
    ELSE LET candidate == chunk.candidates[1]
             textContent == TextOf(candidate.parts, FALSE, TRUE)
             reasoningContent == TextOf(candidate.parts, TRUE, TRUE)
             toolCalls == ToolCallsOf(candidate.parts)
             finishReason == IF toolCalls # <<>> THEN "tool_calls"
                             ELSE IF candidate.finishReason # Absent
                             THEN mapFinishReason(candidate.finishReason)
                             ELSE Null
         IN  IF candidate.parts = <<>> THEN NoChunk
             ELSE Chunk("none",
                        IF textContent # <<>> THEN Content(textContent) ELSE NoContent,
                        IF reasoningContent # <<>> THEN Content(reasoningContent)
                        ELSE NoContent,
                        toolCalls, finishReason)

\* variant of translateStreamChunk that also takes in thought text as content
translateStreamChunk_ThoughtAsContent(chunk) ==
    IF chunk.shape = "other" \/ chunk.candidates = <<>> THEN NoChunk
    ELSE LET candidate == chunk.candidates[1]
             textContent == TextOf(candidate.parts, FALSE, TRUE)
                            \o TextOf(candidate.parts, TRUE, TRUE)
             toolCalls == ToolCallsOf(candidate.parts)
             finishReason == IF toolCalls # <<>> THEN "tool_calls"
                             ELSE IF candidate.finishReason # Absent
                             THEN mapFinishReason(candidate.finishReason)
                             ELSE Null
         IN  IF candidate.parts = <<>> THEN NoChunk
             ELSE IF textContent = <<>> /\ toolCalls = <<>> /\ finishReason = Null
             THEN NoChunk
             ELSE Chunk("none",
                        IF textContent # <<>> THEN Content(textContent) ELSE NoContent,
                        NoContent, toolCalls, finishReason)

\* translateStreamChunk: null, or the chunk's choices[0].delta and finish_reason
translateStreamChunk(chunk) ==
    IF chunk.shape = "other" \/ chunk.candidates = <<>> THEN NoChunk
    ELSE LET candidate == chunk.candidates[1]
             textContent == TextOf(candidate.parts, FALSE, TRUE)
             reasoningContent == TextOf(candidate.parts, TRUE, TRUE)
             toolCalls == ToolCallsOf(candidate.parts)
             finishReason == IF toolCalls # <<>> THEN "tool_calls"
                             ELSE IF candidate.finishReason # Absent
                             THEN mapFinishReason(candidate.finishReason)
                             ELSE Null
         IN  IF candidate.parts = <<>> THEN NoChunk
             ELSE IF textContent = <<>> /\ reasoningContent = <<>>
                     /\ toolCalls = <<>> /\ finishReason = Null
             THEN NoChunk
             ELSE Chunk("none",
                        IF textContent # <<>> THEN Content(textContent) ELSE NoContent,
                        IF reasoningContent # <<>> THEN Content(reasoningContent)
                        ELSE NoContent,
                        toolCalls, finishReason)

(***************************************************************************)
(* createTransformStream: the client's stream of one streaming response     *)
(***************************************************************************)
\* the state of the ReadableStream right after construction; fragments: what
\* parseSSEStream has yielded so far; events: what has been enqueued
NewStream ==
    [status |-> "open", upstream |-> "open", sentInitial |-> FALSE,
     hasContent |-> FALSE, fragments |-> <<>>, events |-> <<>>]

\* one iteration of the for-await loop on the fragment `chunk`
TransformFragment(chunk) ==
    /\ ts.status = "open"
    /\ Len(ts.fragments) < MaxFragments
    /\ LET translatedChunk == translateStreamChunk(chunk)
       IN  ts' = [ts EXCEPT
                    !.fragments = Append(@, chunk),
                    !.sentInitial = TRUE,
                    !.hasContent = @ \/ translatedChunk # NoChunk,
                    !.events = @ \o (IF ts.sentInitial THEN <<>>
                                     ELSE <<createInitialChunk>>)
                                 \o (IF translatedChunk # NoChunk
                                     THEN <<translatedChunk>> ELSE <<>>)]
    /\ UNCHANGED <<tr, rotVars, ctlVars, dmxVars, stoVars>>

\* variant of the code after the loop that leaves out the [DONE] line
EndEvents_NoDone(stream) ==
    IF stream.hasContent \/ stream.sentInitial THEN <<createFinalChunk>> ELSE <<>>

\* what is enqueued once the for-await loop has ended
EndEvents(stream) ==
    (IF stream.hasContent \/ stream.sentInitial THEN <<createFinalChunk>> ELSE <<>>)
    \o <<DoneEvent>>

\* the generator is done: final chunk, [DONE], controller.close()
TransformEnd ==
    /\ ts.status = "open"
    /\ ts' = [ts EXCEPT !.upstream = "exhausted",
                        !.events = @ \o EndEvents(ts),
                        !.status = "closed"]
    /\ UNCHANGED <<tr, rotVars, ctlVars, dmxVars, stoVars>>

\* the generator throws (the upstream connection fails): controller.error
TransformError ==
    /\ ts.status = "open"
    /\ ts' = [ts EXCEPT !.upstream = "failed", !.status = "errored"]
    /\ UNCHANGED <<tr, rotVars, ctlVars, dmxVars, stoVars>>

(***************************************************************************)
(* Translator: external requests to native requests                        *)
(***************************************************************************)
\* the longest plain-text conversation explored
MaxMessages == 3
\* the longest model id explored character by character
MaxModelLen == 4

\* the longest conversation with tool messages explored
MaxToolTalk == 4

\* a tool message without a tool_call_id
NoId == "undefined"
\* a ChatMessage with string content and no tool calls
ChatMessage(role, content) ==
    [role |-> role, content |-> content, tool_calls |-> <<>>,
     tool_call_id |-> NoId]
\* a ToolCall, by its id and its function's name
ToolCall(id, name) == [id |-> id, name |-> name]
\* an assistant message that carries tool calls
AssistantCalls(content, calls) ==
    [ChatMessage("assistant", content) EXCEPT !.tool_calls = calls]
\* a tool message answering the tool call id
ToolMessage(id) == [ChatMessage("tool", <<>>) EXCEPT !.tool_call_id = id]
\* the messages of the conversations with tools explored: the ids of tool
\* calls are the call_... ids this gateway issued, never empty
ToolTalk ==
    {ChatMessage("user", <<"a">>), ChatMessage("system", <<"b">>),
     AssistantCalls(<<>>, <<ToolCall("x", "f")>>),
     AssistantCalls(<<"a">>, <<ToolCall("x", "g"), ToolCall("y", "h")>>),
     ToolMessage("x"), ToolMessage("y"), ToolMessage(NoId)}
PlainRoles == {"system", "user", "assistant"}
PlainTexts == {<<>>, <<"a">>, <<"b">>}
PlainMessages == {ChatMessage(r, c) : r \in PlainRoles, c \in PlainTexts}
\* a GeminiContent
GeminiContent(role, parts) == [role |-> role, parts |-> parts]
NoInstruction == [present |-> FALSE, role |-> "none", parts |-> <<>>]

\* variant of messageToGeminiContent that gives every turn the user role
messageToGeminiContent_AllUser(message) ==
    GeminiContent("user",
                  (IF message.content # <<>>
                   THEN <<TextPart(message.content, FALSE)>> ELSE <<>>)
                  \o [k \in 1..Len(message.tool_calls) |->
                        CallPart(message.tool_calls[k].name)])

\* messageToGeminiContent, for string content: the text part, then one
\* functionCall part per tool call
messageToGeminiContent(message) ==
    GeminiContent(IF message.role = "assistant" THEN "model" ELSE "user",
                  (IF message.content # <<>>
                   THEN <<TextPart(message.content, FALSE)>> ELSE <<>>)
                  \o [k \in 1..Len(message.tool_calls) |->
                        CallPart(message.tool_calls[k].name)])

\* tool_calls.find((tc) => tc.id === toolCallId)
FindToolCall(calls, toolCallId) ==
    SelectSeq(calls, LAMBDA tc : tc.id = toolCallId)

\* variant of findFunctionName that searches from the oldest message on
RECURSIVE findFunctionName_Oldest(_, _)
findFunctionName_Oldest(messages, toolCallId) ==
    IF messages = <<>> THEN "unknown_function"
    ELSE LET msg == Head(messages)
             found == FindToolCall(msg.tool_calls, toolCallId)
         IN  IF msg.role = "assistant" /\ found # <<>>
             THEN found[1].name
             ELSE findFunctionName_Oldest(Tail(messages), toolCallId)

\* findFunctionName: the messages backwards, the first assistant message
\* whose tool_calls hold the id
RECURSIVE findFunctionName(_, _)
findFunctionName(messages, toolCallId) ==
    IF messages = <<>> THEN "unknown_function"
    ELSE LET msg == messages[Len(messages)]
             found == FindToolCall(msg.tool_calls, toolCallId)
         IN  IF msg.role = "assistant" /\ found # <<>>
             THEN found[1].name
             ELSE findFunctionName(SubSeq(messages, 1, Len(messages) - 1),
                                   toolCallId)

\* toolMsg.tool_call_id || ""
OrEmpty(id) == IF id = NoId THEN "" ELSE id

\* the inner while loop of translateToAntigravity: the index after the
\* tool messages that start at j
RECURSIVE ToolRunEnd(_, _)
ToolRunEnd(messages, j) ==
    IF j <= Len(messages) /\ messages[j].role = "tool"
    THEN ToolRunEnd(messages, j + 1) ELSE j

\* functionResponseParts of the tool messages i .. j - 1
functionResponseParts(messages, i, j) ==
    [k \in 1..(j - i) |->
        ResponsePart(findFunctionName(SubSeq(messages, 1, i + k - 2),
                                      OrEmpty(messages[i + k - 1].tool_call_id)))]

\* the loop of translateToAntigravity over request.messages from index i:
\* request.contents and request.systemInstruction
RECURSIVE TranslateMessages(_, _, _)
TranslateMessages(messages, i, sofar) ==
    IF i > Len(messages) THEN sofar
    ELSE LET message == messages[i] IN
         IF message.role = "system"
         THEN TranslateMessages(messages, i + 1,
                  IF ~sofar.systemInstruction.present
                  THEN [sofar EXCEPT !.systemInstruction =
                          [present |-> TRUE, role |-> "user",
                           parts |-> <<TextPart(message.content, FALSE)>>]]
                  ELSE sofar)
         ELSE IF message.role = "tool"
         THEN LET j == ToolRunEnd(messages, i) IN
              TranslateMessages(messages, j,
                  [sofar EXCEPT !.contents =
                      Append(@, GeminiContent("function",
                                    functionResponseParts(messages, i, j)))])
         ELSE TranslateMessages(messages, i + 1,
                  [sofar EXCEPT !.contents =
                      Append(@, messageToGeminiContent(message))])
NoNative == [contents |-> <<>>, systemInstruction |-> NoInstruction]
translateToAntigravity(messages) == TranslateMessages(messages, 1, NoNative)

\* characters of model ids; \w of the effort pattern
WordChars == {"g", "p", "t", "5", "2", "h", "i", "x", "_"}
ModelAlphabet == {"g", "-", "(", ")"}
Gpt52 == <<"g", "p", "t", "-", "5", ".", "2">>
High == <<"h", "i", "g", "h">>
NamedModelIds ==
    {Gpt52, Gpt52 \o <<"(">> \o High \o <<")">>,
     Gpt52 \o <<"(">> \o High \o <<")", "x">>,
     Gpt52 \o <<"(", "x", ")", "(">> \o High \o <<")">>}
ModelIds ==
    NamedModelIds \cup
    UNION {[1..n -> ModelAlphabet] : n \in 1..MaxModelLen}
\* the `reasoning` member of the external request, when the client sent one
NoReasoning == [present |-> FALSE, effort |-> <<>>]
Reasoning(effort) == [present |-> TRUE, effort |-> effort]
ClientReasonings == {NoReasoning, Reasoning(<<"x">>)}

\* the positions of the "(" at which /^(.+?)\((\w+)\)$/ matches modelId
EffortMatches(modelId) ==
    {k \in 2..(Len(modelId) - 2) :
        /\ modelId[k] = "("
        /\ modelId[Len(modelId)] = ")"
        /\ \A i \in (k + 1)..(Len(modelId) - 1) : modelId[i] \in WordChars}

\* variant of parseModelWithEffort that leaves the suffix on the model
parseModelWithEffort_KeepsSuffix(modelId) ==
    IF EffortMatches(modelId) # {}
    THEN LET k == CHOOSE m \in EffortMatches(modelId) :
                     \A o \in EffortMatches(modelId) : m <= o
         IN  [model |-> modelId,
              effort |-> SubSeq(modelId, k + 1, Len(modelId) - 1)]
    ELSE [model |-> modelId, effort |-> <<>>]

\* parseModelWithEffort: the lazy group takes the first position that matches
parseModelWithEffort(modelId) ==
    IF EffortMatches(modelId) # {}
    THEN LET k == CHOOSE m \in EffortMatches(modelId) :
                     \A o \in EffortMatches(modelId) : m <= o
         IN  [model |-> SubSeq(modelId, 1, k - 1),
              effort |-> SubSeq(modelId, k + 1, Len(modelId) - 1)]
    ELSE [model |-> modelId, effort |-> <<>>]

\* translateToCodexRequest: the model and reasoning members of the Codex
\* request ({model, messages, stream, ...rest}, then reasoning = {effort})
translateToCodexRequest(request) ==
    LET parsed == parseModelWithEffort(request.model)
    IN  [model |-> parsed.model,
         reasoning |-> IF parsed.effort # <<>> THEN Reasoning(parsed.effort)
                       ELSE request.reasoning]

(***************************************************************************)
(* Calls of the translation functions                                      *)
(***************************************************************************)
\* the call made: its function, its argument and what it returned; the
\* functions keep nothing between calls, so a behaviour is one call
NoTranslation ==
    [op |-> "none", messages |-> <<>>, native |-> NoNative,
     response |-> NativeResponse(<<>>),
     message |-> translateFromAntigravity(NativeResponse(<<>>)),
     fragment |-> Fragment("other", <<>>), chunk |-> NoChunk,
     request |-> [model |-> <<>>, reasoning |-> NoReasoning],
     codex |-> [model |-> <<>>, reasoning |-> NoReasoning]]

TranslateRequest(messages) ==
    /\ tr.op = "none"
    /\ tr' = [NoTranslation EXCEPT !.op = "translateToAntigravity",
                                   !.messages = messages,
                                   !.native = translateToAntigravity(messages)]
    /\ UNCHANGED <<ts, rotVars, ctlVars, dmxVars, stoVars>>

TranslateResponse(response) ==
    /\ tr.op = "none"
    /\ tr' = [NoTranslation EXCEPT !.op = "translateFromAntigravity",
                                   !.response = response,
                                   !.message = translateFromAntigravity(response)]
    /\ UNCHANGED <<ts, rotVars, ctlVars, dmxVars, stoVars>>

TranslateChunk(chunk) ==
    /\ tr.op = "none"
    /\ tr' = [NoTranslation EXCEPT !.op = "translateStreamChunk",
                                   !.fragment = chunk,
                                   !.chunk = translateStreamChunk(chunk)]
    /\ UNCHANGED <<ts, rotVars, ctlVars, dmxVars, stoVars>>

TranslateCodex(modelId, reasoning) ==
    LET request == [model |-> modelId, reasoning |-> reasoning]
    IN  /\ tr.op = "none"
        /\ tr' = [NoTranslation EXCEPT !.op = "translateToCodexRequest",
                                       !.request = request,
                                       !.codex = translateToCodexRequest(request)]
        /\ UNCHANGED <<ts, rotVars, ctlVars, dmxVars, stoVars>>

TrIdle ==
    /\ tr = NoTranslation
    /\ ts = NewStream

(***************************************************************************)
(* Management routes under /manage and the quota routes of the API app    *)
(***************************************************************************)
\* the remoteManagement settings explored: none, a secret key (what
\* MANAGEMENT_SECRET_KEY sets), a secret key in a config file that leaves
\* `enabled` false
ManagementConfigs ==
    {NoManagement, [enabled |-> TRUE, secretKey |-> <<"s3cret">>],
     [enabled |-> FALSE, secretKey |-> <<"s3cret">>]}
\* the <<X-Management-Key, Authorization>> headers a client may send
ManagementCredentials ==
    {<<NoHeader, NoHeader>>,
     <<HeaderOf(<<"s3cret">>), NoHeader>>,
     <<NoHeader, HeaderOf(<<"Bearer ", "s3cret">>)>>,
     <<NoHeader, HeaderOf(<<"guess">>)>>,
     <<HeaderOf(<<"guess">>), HeaderOf(<<"s3cret">>)>>}

\* the management middleware: 0 when it calls next(), else the status of its
\* error response; exempt: the path is one of those it lets through
ManagementAuth(exempt, xKey, authorization) ==
    LET authHeader == IF xKey.present /\ xKey.text # <<>> THEN xKey
                      ELSE authorization
        key == IF authHeader.text # <<>>
                    /\ ToLowerCase(Head(authHeader.text)) = "bearer "
               THEN Tail(authHeader.text) ELSE authHeader.text
    IN  IF exempt THEN 0
        ELSE IF ~cfgManagement.enabled \/ cfgManagement.secretKey = Null THEN 0
        ELSE IF ~authHeader.present \/ authHeader.text = <<>> THEN 401
        ELSE IF key # cfgManagement.secretKey THEN 403
        ELSE 0

MgmtDone(op, xKey, authorization, status, upstream, saves) ==
    [op |-> op, xKey |-> xKey, authorization |-> authorization,
     status |-> status, upstream |-> upstream, saves |-> saves]

\* what a management step leaves alone
manageFrame ==
    <<index, lastUsed, now, ret, cleared, run, boundAt, cfgVars, req, hist, dmxVars, trVars, stoVars>>

TotalAccounts == Len(accounts["antigravity"]) + Len(accounts["codex"])

\* GET /manage/accounts and POST /manage/refresh-tokens: ensureValidToken
\* and saveXAccount for every stored account; k of them reach the token
\* endpoint, `failed` of those fail and are not saved
ManageRefreshAll(op, xKey, authorization) ==
    LET verdict == ManagementAuth(FALSE, xKey, authorization) IN
    /\ op \in {"list", "refresh-tokens"}
    /\ \E k \in 0..TotalAccounts : \E failed \in 0..k :
          mgmt' = IF verdict # 0
                  THEN MgmtDone(op, xKey, authorization, verdict, 0, 0)
                  ELSE MgmtDone(op, xKey, authorization, 200, k, TotalAccounts - failed)
    /\ UNCHANGED <<accounts, manageFrame>>

\* DELETE /manage/accounts/:provider/:id
ManageDelete(p, id, xKey, authorization) ==
    LET verdict == ManagementAuth(FALSE, xKey, authorization)
        op == "delete"
    IN  /\ mgmt' = IF verdict # 0
                   THEN MgmtDone(op, xKey, authorization, verdict, 0, 0)
                   ELSE IF ~InStore(p, id)
                   THEN MgmtDone(op, xKey, authorization, 404, 0, 0)
                   ELSE MgmtDone(op, xKey, authorization, 200, 0, 1)
        /\ accounts' = IF verdict = 0 /\ InStore(p, id)
                       THEN [accounts EXCEPT ![p] = MapDelete(@, id)]
                       ELSE accounts
        /\ UNCHANGED manageFrame

\* GET /manage/auth/:provider/login: builds the authorization URL
ManageLogin(xKey, authorization) ==
    LET verdict == ManagementAuth(FALSE, xKey, authorization) IN
    /\ mgmt' = MgmtDone("login", xKey, authorization,
                        IF verdict # 0 THEN verdict ELSE 200, 0, 0)
    /\ UNCHANGED <<accounts, manageFrame>>

\* the OAuth callbacks: exchangeCode, the user info, then saveXAccount of an
\* account with a fresh id. Only the Antigravity GET callback is on the
\* middleware's list of open paths; whether the path the middleware compares
\* (c.req.path) matches that list under the /manage mount is the router's
\* business: pathMatches.
ManageCallback(p, id, auto, pathMatches, exchangeOk, xKey, authorization) ==
    LET exempt == auto /\ pathMatches
        verdict == ManagementAuth(exempt, xKey, authorization)
        op == IF auto THEN "callback" ELSE "manual-callback"
    IN  /\ auto => p = "antigravity"
        /\ id \notin Range(accounts[p])
        /\ mgmt' = IF verdict # 0
                   THEN MgmtDone(op, xKey, authorization, verdict, 0, 0)
                   ELSE IF ~exchangeOk
                   THEN MgmtDone(op, xKey, authorization, IF auto THEN 200 ELSE 500, 1, 0)
                   ELSE MgmtDone(op, xKey, authorization, IF auto THEN 302 ELSE 200, 1, 1)
        /\ accounts' = IF verdict = 0 /\ exchangeOk
                       THEN [accounts EXCEPT ![p] = MapSet(@, id)]
                       ELSE accounts
        /\ UNCHANGED manageFrame

\* POST /api/antigravity/quota/:id: fetchQuota, then saveAntigravityAccount
QuotaOne(id, fetchOk, xKey, authorization) ==
    /\ mgmt' = IF ~InStore("antigravity", id)
               THEN MgmtDone("quota", xKey, authorization, 404, 0, 0)
               ELSE IF ~fetchOk
               THEN MgmtDone("quota", xKey, authorization, 500, 1, 0)
               ELSE MgmtDone("quota", xKey, authorization, 200, 1, 1)
    /\ UNCHANGED <<accounts, manageFrame>>

\* GET /api/antigravity/quota/all: fetchQuota and save for every account,
\* some of which may fail
QuotaAll(xKey, authorization) ==
    LET n == Len(accounts["antigravity"]) IN
    /\ \E failed \in 0..n :
          mgmt' = MgmtDone("quota-all", xKey, authorization, 200, n, n - failed)
    /\ UNCHANGED <<accounts, manageFrame>>

(***************************************************************************)
(* Account records: the objects AccountStorage holds, their files,         *)
(* ensureValidToken, and getXToken step by step (one step per wait on the  *)
(* network or on a continuation)                                           *)
(***************************************************************************)
\* the instants, in seconds, at which the clock is read
Instants == {0, 3590, 3610}
\* refreshToken calls of one behaviour
MaxRefreshes == 2
\* rotations of one behaviour (antigravityIndex + codexIndex)
MaxSelects == 2
\* account objects of one behaviour (loaded at the start or logged in)
MaxAccounts == 2
\* what may be in flight at the same time: a chat handler in getXToken and
\* a management or quota route working on one account
Handlers == {"handler"}
Routes == {"route"}
Procs == Handlers \cup Routes
\* the account ids of the store specification
StoreOrder(p) == IF p = "antigravity" THEN <<"a1", "a2">> ELSE <<"c1">>
StoreIds(p) == Range(StoreOrder(p))
AllStoreIds == UNION {StoreIds(p) : p \in Providers}
\* userInfo.email / payload.email of the accounts that log in
Emails == {<<"a", "@", "x">>, <<"b", "@", "x">>}
\* expires_in of the token endpoints' answers, in seconds
ExpiresIn(p) == IF p = "antigravity" THEN 3600 ELSE 864000

\* the timeout of the refreshToken and fetchProjectId calls: 30000 ms
fetchTimeoutSeconds == 30

\* bufferSeconds of AntigravityAuth / CodexAuth.ensureValidToken
bufferSeconds(p) == IF p = "antigravity" THEN 300 ELSE 5 * 24 * 60 * 60

\* Math.floor(Date.now() / 1000)
nowSeconds == now \div 1000

\* an account object: email, token.access_token (numbered by the refresh
\* that obtained it, 0 for the login), token.expiry_timestamp,
\* token.project_id set; `until` is the second at which the access token
\* really expires (the instant it was issued plus expires_in)
Account(email, access, expiry, until, project) ==
    [email |-> email, access |-> access, expiry |-> expiry, until |-> until,
     project |-> project]
NoObject == Account(<<>>, 0, 0, 0, FALSE)

\* JSON.stringify(account) in a file
File(id, account) == [id |-> id, account |-> account]
NoFile == File(Null, NoObject)

\* sanitizeFilename: filename.replace(/[<>:"/\\|?*@]/g, "_")
ReservedChars == {"<", ">", ":", "\"", "/", "\\", "|", "?", "*", "@"}
sanitizeFilename(filename) ==
    [i \in 1..Len(filename) |->
        IF filename[i] \in ReservedChars THEN "_" ELSE filename[i]]

\* the file saveXAccount / deleteXAccount use for an account
FileName(p, email) ==
    sanitizeFilename((IF p = "codex" THEN <<"c", "o", "d", "e", "x", "-">> ELSE <<>>)
                     \o email \o <<".", "j", "s", "o", "n">>)
FileNames(p) == {FileName(p, e) : e \in Emails}

\* loadXAccounts: accounts.set(account.id, account) for every file
LoadedIds(p) == {disk[p][f].id : f \in FileNames(p)} \ {Null}
Loaded(p, id) == (CHOOSE f \in FileNames(p) : disk[p][f].id = id)
LoadedAccount(p, id) == disk[p][Loaded(p, id)].account

\* writeTextFile(filepath, JSON.stringify(account)); written: it succeeded
WriteFile(p, id, account, written) ==
    IF written
    THEN [disk EXCEPT ![p][FileName(p, account.email)] = File(id, account)]
    ELSE disk

\* Deno.remove(filepath)
RemoveFile(p, account) ==
    [disk EXCEPT ![p][FileName(p, account.email)] = NoFile]

\* an operation in flight: kind (select, refresh, quota), where it waits,
\* its account, the `now` ensureValidToken read, the number of its refresh
Op(kind, pc, p, id, at, seq) ==
    [kind |-> kind, pc |-> pc, provider |-> p, id |-> id, at |-> at, seq |-> seq]
IdleOp == Op("none", "idle", "none", Null, 0, 0)

\* the last step: what was done, by whom, on which account
Did(op, proc, id) == [op |-> op, proc |-> proc, id |-> id]
NoStep == Did("none", "none", Null)

Max(a, b) == IF a >= b THEN a ELSE b

\* what a step of the store specification leaves alone
storeFrame == <<ret, cleared, run, boundAt, ctlVars, dmxVars, trVars, batch>>

\* ensureValidToken: account.token.expiry_timestamp > now + bufferSeconds
TokenValid(p, account) ==
    account.expiry > nowSeconds + bufferSeconds(p)

\* ensureValidToken after refreshToken answered: the account object passed
\* in is updated in place; `at` is the `now` read before the call
Refreshed(p, account, at, seq) ==
    [account EXCEPT !.access = seq,
                    !.expiry = at + ExpiresIn(p),
                    !.until = nowSeconds + ExpiresIn(p)]

\* the account object the OAuth callbacks build
\* (expiry_timestamp: Date.now() + tokenResponse.expires_in * 1000)
CallbackAccount(p, email, project) ==
    Account(email, 0, now + ExpiresIn(p) * 1000, nowSeconds + ExpiresIn(p), project)

\* getXToken / the routes after ensureValidToken returned the account:
\* saveXAccount (Map.set, writeTextFile), then for getXToken the binding
\* and, without a project_id, the wait for fetchProjectId
AfterEnsure(proc, kind, p, id, written) ==
    /\ accounts' = [accounts EXCEPT ![p] = MapSet(@, id)]
    /\ disk' = WriteFile(p, id, objects[id], written)
    /\ IF ~written
       THEN /\ ops' = [ops EXCEPT ![proc] = IdleOp]
            /\ did' = Did("throw", proc, id)
            /\ UNCHANGED lastUsed
       ELSE IF kind # "select"
       THEN /\ ops' = [ops EXCEPT ![proc] = IdleOp]
            /\ did' = Did("save", proc, id)
            /\ UNCHANGED lastUsed
       ELSE /\ lastUsed' = [lastUsed EXCEPT ![p] = NewBinding(id)]
            /\ IF p = "antigravity" /\ ~objects[id].project
               THEN /\ ops' = [ops EXCEPT ![proc] =
                                 Op(kind, "projecting", p, id, 0, 0)]
                    /\ did' = Did("save", proc, id)
               ELSE /\ ops' = [ops EXCEPT ![proc] = IdleOp]
                    /\ did' = Did("return", proc, id)

\* ensureValidToken(account) called by `kind`: a valid token goes on to the
\* save, any other waits for refreshToken
Ensure(proc, kind, p, id, written) ==
    IF TokenValid(p, objects[id])
    THEN /\ AfterEnsure(proc, kind, p, id, written)
         /\ UNCHANGED <<objects, started, finished>>
    ELSE /\ started < MaxRefreshes
         /\ started' = started + 1
         /\ ops' = [ops EXCEPT ![proc] =
                      Op(kind, "refreshing", p, id, nowSeconds, started + 1)]
         /\ did' = Did("refresh", proc, id)
         /\ UNCHANGED <<accounts, disk, lastUsed, objects, finished>>

\* getXToken(forceRotate) up to its first wait
SelectStart(proc, p, forceRotate, written) ==
    /\ ops[proc] = IdleOp
    /\ Len(accounts[p]) > 0
    /\ LET sel == IF StickyReuse(p, forceRotate)
                  THEN [account |-> lastUsed[p].id, index |-> index[p]]
                  ELSE SelectNextAccount(accounts[p], index[p])
       IN  /\ index' = [index EXCEPT ![p] = sel.index]
           /\ index'["antigravity"] + index'["codex"] <= MaxSelects
           /\ Ensure(proc, "select", p, sel.account, written)
    /\ UNCHANGED <<now, removed, storeFrame>>

\* GET /manage/accounts and POST /manage/refresh-tokens: the callback run
\* for one account of getAllXAccounts()
RefreshStart(proc, p, id, written) ==
    /\ ops[proc] = IdleOp
    /\ InStore(p, id)
    /\ Ensure(proc, "refresh", p, id, written)
    /\ UNCHANGED <<index, now, removed, storeFrame>>

\* refreshToken answered (ok) or threw
RefreshDone(proc, ok) ==
    LET op == ops[proc] IN
    /\ op.pc = "refreshing"
    /\ IF ok
       THEN /\ objects' = [objects EXCEPT ![op.id] =
                             Refreshed(op.provider, @, op.at, op.seq)]
            /\ finished' = [finished EXCEPT ![op.id] = Max(@, op.seq)]
            /\ ops' = [ops EXCEPT ![proc].pc = "refreshed"]
            /\ did' = Did("mutate", proc, op.id)
       ELSE /\ ops' = [ops EXCEPT ![proc] = IdleOp]
            /\ did' = Did("throw", proc, op.id)
            /\ UNCHANGED <<objects, finished>>
    /\ UNCHANGED <<accounts, index, lastUsed, now, disk, started, removed, storeFrame>>

\* the caller of ensureValidToken resumes with the refreshed account
SaveRefreshed(proc, written) ==
    LET op == ops[proc] IN
    /\ op.pc = "refreshed"
    /\ AfterEnsure(proc, op.kind, op.provider, op.id, written)
    /\ UNCHANGED <<index, now, objects, started, finished, removed, storeFrame>>

\* fetchProjectId answered (ok) or threw; a failed second save is swallowed
ProjectDone(proc, ok, written) ==
    LET op == ops[proc] IN
    /\ op.pc = "projecting"
    /\ IF ok
       THEN /\ objects' = [objects EXCEPT ![op.id].project = TRUE]
            /\ accounts' = [accounts EXCEPT ![op.provider] = MapSet(@, op.id)]
            /\ disk' = WriteFile(op.provider, op.id, objects'[op.id], written)
       ELSE UNCHANGED <<objects, accounts, disk>>
    /\ ops' = [ops EXCEPT ![proc] = IdleOp]
    /\ did' = Did("return", proc, op.id)
    /\ UNCHANGED <<index, lastUsed, now, started, finished, removed, storeFrame>>

\* POST /api/antigravity/quota/:id and the callback of quota/all for one
\* account, up to the wait for fetchQuota
QuotaStart(proc, id) ==
    /\ ops[proc] = IdleOp
    /\ InStore("antigravity", id)
    /\ ops' = [ops EXCEPT ![proc] = Op("quota", "quoting", "antigravity", id, 0, 0)]
    /\ did' = Did("quota", proc, id)
    /\ UNCHANGED <<accounts, index, lastUsed, now, objects, disk, started,
                   finished, removed, storeFrame>>

\* fetchQuota answered (ok) or threw; projectId: the answer carries one
QuotaDone(proc, ok, projectId, written) ==
    LET op == ops[proc] IN
    /\ op.pc = "quoting"
    /\ IF ok
       THEN /\ objects' = [objects EXCEPT ![op.id].project = @ \/ projectId]
            /\ accounts' = [accounts EXCEPT ![op.provider] = MapSet(@, op.id)]
            /\ disk' = WriteFile(op.provider, op.id, objects'[op.id], written)
            /\ did' = Did(IF written THEN "save" ELSE "throw", proc, op.id)
       ELSE /\ did' = Did("throw", proc, op.id)
            /\ UNCHANGED <<objects, accounts, disk>>
    /\ ops' = [ops EXCEPT ![proc] = IdleOp]
    /\ UNCHANGED <<index, lastUsed, now, started, finished, removed, storeFrame>>

\* crypto.randomUUID(): ids are interchangeable, the unused ones are taken
\* in one order
FreshIds(p) ==
    {StoreOrder(p)[i] : i \in {j \in 1..Len(StoreOrder(p)) :
        /\ objects[StoreOrder(p)[j]] = NoObject
        /\ \A k \in 1..(j - 1) : objects[StoreOrder(p)[k]] # NoObject}}

\* the OAuth callbacks: a new account object under a fresh UUID, saved
StoreLogin(p, id, email, project, written) ==
    /\ id \in FreshIds(p)
    /\ Cardinality({i \in AllStoreIds : objects[i] # NoObject}) < MaxAccounts
    /\ objects' = [objects EXCEPT ![id] =
                     CallbackAccount(p, email, project /\ p = "antigravity")]
    /\ accounts' = [accounts EXCEPT ![p] = MapSet(@, id)]
    /\ disk' = WriteFile(p, id, objects'[id], written)
    /\ did' = Did("login", "none", id)
    /\ UNCHANGED <<index, lastUsed, now, ops, started, finished, removed, storeFrame>>

\* DELETE /manage/accounts/:provider/:id: deleteXAccount(id)
StoreDelete(p, id) ==
    /\ InStore(p, id)
    /\ accounts' = [accounts EXCEPT ![p] = MapDelete(@, id)]
    /\ disk' = RemoveFile(p, objects[id])
    /\ removed' = removed \cup {id}
    /\ did' = Did("delete", "none", id)
    /\ UNCHANGED <<index, lastUsed, now, objects, ops, started, finished, storeFrame>>

\* time passes up to the next instant; a call with a timeout does not stay
\* in flight longer than the timeout
StoreTick(t) ==
    /\ t * 1000 > now
    /\ \A proc \in Procs :
          ops[proc].pc \in {"refreshing", "projecting"}
             => t - nowSeconds <= fetchTimeoutSeconds
    /\ now' = t * 1000
    /\ did' = Did("tick", "none", Null)
    /\ UNCHANGED <<accounts, index, lastUsed, objects, disk, ops, started,
                   finished, removed, storeFrame>>

(***************************************************************************)
(* Batch routes: GET /api/antigravity/quota/all, GET /manage/accounts,     *)
(* POST /manage/refresh-tokens                                             *)
(***************************************************************************)
\* accounts of one provider in a batch
MaxBatch == 6
\* const CONCURRENCY = 5 of the bulk quota route
CONCURRENCY == 5

BatchRoutes == {"quota-all", "list", "refresh-tokens"}

\* a batch: the sizes of the groups of per-account operations that are
\* started together, the group being awaited, the position of each account
\* ("pending", "flight": waiting for the upstream, "done"), and the accounts
\* whose operation reaches the upstream (for ensureValidToken: the accounts
\* whose token is due for a refresh)
Batch(route, waves, cur, state, needs) ==
    [route |-> route, waves |-> waves, cur |-> cur, state |-> state,
     needs |-> needs]
NoBatch == Batch("none", <<>>, 0, <<>>, <<>>)

RECURSIVE Chunks(_)
\* for (i = 0; i < accounts.length; i += CONCURRENCY) accounts.slice(i, i + CONCURRENCY)
Chunks(n) ==
    IF n = 0 THEN <<>>
    ELSE IF n <= CONCURRENCY THEN <<n>>
    ELSE <<CONCURRENCY>> \o Chunks(n - CONCURRENCY)

\* the groups each route starts together, for n Antigravity and m Codex
\* accounts: slices of CONCURRENCY; one Promise.all per provider; one
\* account per turn of the for loops
WavesOf(route, n, m) ==
    IF route = "quota-all" THEN Chunks(n)
    ELSE IF route = "list" THEN <<n, m>>
    ELSE [i \in 1..(n + m) |-> 1]

RECURSIVE SumTo(_, _)
SumTo(waves, k) == IF k = 0 THEN 0 ELSE waves[k] + SumTo(waves, k - 1)
\* the accounts of the k-th group
WaveOf(waves, k) == (SumTo(waves, k - 1) + 1)..SumTo(waves, k)

InFlight(b) == {i \in 1..Len(b.state) : b.state[i] = "flight"}

RECURSIVE Advance(_)
\* await Promise.all(...) / the next turn of the loop: once no operation of
\* the awaited group is in flight the next group starts; an operation whose
\* token needs no refresh is over without reaching the upstream
Advance(b) ==
    IF InFlight(b) # {} \/ b.cur = Len(b.waves) THEN b
    ELSE Advance([b EXCEPT !.cur = @ + 1,
                           !.state = [i \in 1..Len(b.state) |->
                              IF i \in WaveOf(b.waves, b.cur + 1)
                              THEN IF b.needs[i] THEN "flight" ELSE "done"
                              ELSE b.state[i]]])

\* what a step of a batch route leaves alone
batchFrame ==
    <<rotVars, ctlVars, dmxVars, trVars, objects, disk, ops, started, finished,
      did, removed>>

\* the route is called with n Antigravity and m Codex accounts stored
\* (fetchQuota always reaches the upstream, and only for Antigravity)
BatchStart(route, n, m, needs) ==
    /\ batch = NoBatch
    /\ route = "quota-all" => m = 0 /\ \A i \in 1..n : needs[i]
    /\ batch' = Advance(Batch(route, WavesOf(route, n, m), 0,
                               [i \in 1..(n + m) |-> "pending"], needs))
    /\ UNCHANGED batchFrame

\* the upstream answers (or fails) the operation of the i-th account
BatchAnswer(i) ==
    /\ i \in InFlight(batch)
    /\ batch' = Advance([batch EXCEPT !.state[i] = "done"])
    /\ UNCHANGED batchFrame

\* the store variables of the specifications that hold no account record
StoIdle ==
    /\ objects = [id \in AllAccountIds |-> NoObject]
    /\ disk = [p \in Providers |-> [f \in FileNames(p) |-> NoFile]]
    /\ ops = [proc \in Procs |-> IdleOp]
    /\ started = 0
    /\ finished = [id \in AllAccountIds |-> 0]
    /\ did = NoStep
    /\ removed = {}
    /\ batch = NoBatch

\* the pools storage.init() may have loaded: ids without repetition
Pools(p) ==
    {s \in UNION {[1..n -> AccountIdsOf(p)] : n \in 0..Cardinality(AccountIdsOf(p))} :
        \A i, j \in 1..Len(s) : s[i] = s[j] => i = j}

RotInit ==
    /\ accounts \in [Providers -> UNION {Pools(p) : p \in Providers}]
    /\ \A p \in Providers : accounts[p] \in Pools(p)
    /\ index = [p \in Providers |-> 0]
    /\ lastUsed = [p \in Providers |-> NoLock]
    /\ now = 0
    /\ ret = NoCall
    /\ cleared = [p \in Providers |-> Null]
    /\ run = [p \in Providers |-> <<>>]
    /\ boundAt = [p \in Providers |-> 0]

\* loadConfig with the default configuration; no request in flight
CtlIdle ==
    /\ cfgMaxRetries = DefaultMaxRetries
    /\ cfgApiKeys = {}
    /\ cfgManagement = NoManagement
    /\ mgmt = NoMgmt
    /\ req = [r \in Requests |-> IdleReq]
    /\ hist = [r \in Requests |-> NoHist]

Init == RotInit /\ CtlIdle /\ DmxIdle /\ TrIdle /\ StoIdle

Next ==
    \/ \E p \in Providers, f \in BOOLEAN, ok \in BOOLEAN : Select(p, f, ok)
    \/ \E p \in Providers : \E id \in AccountIdsOf(p) : MarkFailed(p, id)
    \/ \E p \in Providers : \E id \in AccountIdsOf(p) : SaveAccount(p, id)
    \/ \E p \in Providers : \E id \in AccountIdsOf(p) : DeleteAccount(p, id)
    \/ \E d \in Delays : Tick(d)

vars == <<rotVars, ctlVars, dmxVars, trVars, stoVars>>

Spec == Init /\ [][Next]_vars

\* the TokenManager over a pool that no login or deletion changes
NextFixedPool ==
    \/ \E p \in Providers, f \in BOOLEAN, ok \in BOOLEAN : Select(p, f, ok)
    \/ \E p \in Providers : \E id \in AccountIdsOf(p) : MarkFailed(p, id)
    \/ \E d \in Delays : Tick(d)

SpecFixedPool == Init /\ [][NextFixedPool]_vars

\* the pools the gateway is started with: account ids are interchangeable
\* UUIDs, so one pool of each size stands for all of them
LoadOrder(p) == IF p = "antigravity" THEN <<"a1", "a2", "a3">> ELSE <<"c1">>
StartPools(p) == {SubSeq(LoadOrder(p), 1, n) : n \in 0..Len(LoadOrder(p))}

\* the gateway serving chat-completion requests
CtlInit ==
    /\ RotInit
    /\ \A p \in Providers : accounts[p] \in StartPools(p)
    /\ cfgMaxRetries \in 0..MaxRetriesCfg
    /\ cfgApiKeys \in ApiKeyLists
    /\ cfgManagement = NoManagement
    /\ mgmt = NoMgmt
    /\ req = [r \in Requests |-> IdleReq]
    /\ hist = [r \in Requests |-> NoHist]
    /\ DmxIdle
    /\ TrIdle
    /\ StoIdle

CtlNext ==
    \/ \E r \in Requests, h \in Headers, b \in Bodies : Start(r, h, b)
    \/ \E r \in Requests, ok \in BOOLEAN : AttemptSelect(r, ok)
    \/ \E r \in Requests, o \in Outcomes : AttemptSend(r, o)
    \/ \E r \in Requests, ok \in BOOLEAN : MarkAfterAuthError(r, ok)
    \/ \E r \in Requests, f \in BOOLEAN : StreamStep(r, f)
    \/ \E d \in Delays : CtlTick(d)

SpecCtl == CtlInit /\ [][CtlNext]_vars

\* the steps the gateway takes on its own: getXToken (its refreshToken call
\* is aborted after 30 s) and the catch blocks. The upstream's answer to
\* generateContent / streamGenerateContent / sendRequest is awaited from a
\* plain fetch with no signal and no timer, and nothing else ends the wait:
\* no fairness is assumed for it.
CtlFairness ==
    /\ WF_vars(\E r \in Requests, ok \in BOOLEAN : AttemptSelect(r, ok))
    /\ WF_vars(\E r \in Requests, ok \in BOOLEAN : MarkAfterAuthError(r, ok))

\* the gateway serving chat-completion requests, its own steps being taken
SpecCtlLive == CtlInit /\ [][CtlNext]_vars /\ CtlFairness

\* the operator's requests to the management and quota routes
ManageInit ==
    /\ RotInit
    /\ \A p \in Providers : accounts[p] \in StartPools(p)
    /\ cfgMaxRetries = DefaultMaxRetries
    /\ cfgApiKeys = {}
    /\ cfgManagement \in ManagementConfigs
    /\ mgmt = NoMgmt
    /\ req = [r \in Requests |-> IdleReq]
    /\ hist = [r \in Requests |-> NoHist]
    /\ DmxIdle
    /\ TrIdle
    /\ StoIdle

ManageNext ==
    \E cred \in ManagementCredentials :
      LET xKey == cred[1]
          authorization == cred[2]
      IN
        \/ \E op \in {"list", "refresh-tokens"} :
              ManageRefreshAll(op, xKey, authorization)
        \/ \E p \in Providers : \E id \in AccountIdsOf(p) :
              ManageDelete(p, id, xKey, authorization)
        \/ ManageLogin(xKey, authorization)
        \/ \E p \in Providers : \E id \in AccountIdsOf(p) :
              \E auto \in BOOLEAN, pathMatches \in BOOLEAN, exchangeOk \in BOOLEAN :
                 ManageCallback(p, id, auto, pathMatches, exchangeOk, xKey, authorization)
        \/ \E id \in AccountIdsOf("antigravity"), fetchOk \in BOOLEAN :
              QuotaOne(id, fetchOk, xKey, authorization)
        \/ QuotaAll(xKey, authorization)

SpecManage == ManageInit /\ [][ManageNext]_vars

\* parseSSEStream reading one upstream stream
DmxInit ==
    /\ accounts = [p \in Providers |-> <<>>]
    /\ index = [p \in Providers |-> 0]
    /\ lastUsed = [p \in Providers |-> NoLock]
    /\ now = 0
    /\ ret = NoCall
    /\ cleared = [p \in Providers |-> Null]
    /\ run = [p \in Providers |-> <<>>]
    /\ boundAt = [p \in Providers |-> 0]
    /\ CtlIdle
    /\ DmxIdle
    /\ TrIdle
    /\ StoIdle

DmxNext ==
    \/ \E chunk \in SeqsUpTo(DemuxAlphabet, MaxStream) : Read(chunk)
    \/ EndOfStream

SpecDemux == DmxInit /\ [][DmxNext]_vars

\* parseSSEStream reading an upstream that sends whole pieces
LinesNext ==
    \/ \E chunk \in Pieces : ReadPiece(chunk)
    \/ EndOfStream

SpecLines == DmxInit /\ [][LinesNext]_vars

\* the translation functions applied to bounded inputs
TranslateInit ==
    /\ accounts = [p \in Providers |-> <<>>]
    /\ index = [p \in Providers |-> 0]
    /\ lastUsed = [p \in Providers |-> NoLock]
    /\ now = 0
    /\ ret = NoCall
    /\ cleared = [p \in Providers |-> Null]
    /\ run = [p \in Providers |-> <<>>]
    /\ boundAt = [p \in Providers |-> 0]
    /\ CtlIdle
    /\ DmxIdle
    /\ TrIdle
    /\ StoIdle

TranslateNext ==
    \/ \E n \in 1..MaxMessages : \E messages \in [1..n -> PlainMessages] :
          TranslateRequest(messages)
    \/ \E n \in 1..MaxToolTalk : \E messages \in [1..n -> ToolTalk] :
          TranslateRequest(messages)
    \/ \E response \in NativeResponses : TranslateResponse(response)
    \/ \E chunk \in Fragments : TranslateChunk(chunk)
    \/ \E modelId \in ModelIds, reasoning \in ClientReasonings :
          TranslateCodex(modelId, reasoning)

SpecTranslate == TranslateInit /\ [][TranslateNext]_vars

\* one streaming response of the Antigravity handler
StreamNext ==
    \/ \E chunk \in Fragments : TransformFragment(chunk)
    \/ TransformEnd
    \/ TransformError

SpecStream == TranslateInit /\ [][StreamNext]_vars

\* the account files a previous run left behind: written by saveXAccount
\* after a refresh, expiry_timestamp in seconds
\* (the stored token reaches its refresh buffer at second 3590)
StoredAccount(p, project) ==
    LET expiry == bufferSeconds(p) + 3590
    IN  Account(<<"a", "@", "x">>, 0, expiry, expiry, project)
StartDisks ==
    {[p \in Providers |-> [f \in FileNames(p) |-> NoFile]]} \cup
    {[p \in Providers |-> [f \in FileNames(p) |->
        IF f # FileName(p, <<"a", "@", "x">>) THEN NoFile
        ELSE IF p = "antigravity"
        THEN File("a1", StoredAccount(p, project))
        ELSE File("c1", StoredAccount(p, FALSE))]] : project \in BOOLEAN}

\* storage.init(): every account file is loaded into the Map
StoreInit ==
    /\ disk \in StartDisks
    /\ accounts = [p \in Providers |->
                     IF LoadedIds(p) = {} THEN <<>>
                     ELSE <<CHOOSE id \in LoadedIds(p) : TRUE>>]
    /\ objects = [id \in AllAccountIds |->
                    IF \E p \in Providers : id \in LoadedIds(p)
                    THEN LoadedAccount(CHOOSE p \in Providers : id \in LoadedIds(p), id)
                    ELSE NoObject]
    /\ index = [p \in Providers |-> 0]
    /\ lastUsed = [p \in Providers |-> NoLock]
    /\ now = 0
    /\ ret = NoCall
    /\ cleared = [p \in Providers |-> Null]
    /\ run = [p \in Providers |-> <<>>]
    /\ boundAt = [p \in Providers |-> 0]
    /\ CtlIdle
    /\ DmxIdle
    /\ TrIdle
    /\ ops = [proc \in Procs |-> IdleOp]
    /\ started = 0
    /\ finished = [id \in AllAccountIds |-> 0]
    /\ did = NoStep
    /\ removed = {}
    /\ batch = NoBatch

\* (the file write is let fail where it persists a refreshed token)
StoreNext ==
    \/ \E proc \in Handlers, p \in Providers, f \in BOOLEAN, written \in {TRUE} :
          SelectStart(proc, p, f, written)
    \/ \E proc \in Routes, p \in Providers, written \in {TRUE} :
          \E id \in StoreIds(p) : RefreshStart(proc, p, id, written)
    \/ \E proc \in Procs, ok \in BOOLEAN : RefreshDone(proc, ok)
    \/ \E proc \in Procs, written \in BOOLEAN : SaveRefreshed(proc, written)
    \/ \E proc \in Procs, ok \in BOOLEAN, written \in {TRUE} :
          ProjectDone(proc, ok, written)
    \/ \E proc \in Routes : \E id \in StoreIds("antigravity") : QuotaStart(proc, id)
    \/ \E proc \in Procs, ok \in BOOLEAN, projectId \in BOOLEAN, written \in {TRUE} :
          QuotaDone(proc, ok, projectId, written)
    \/ \E p \in Providers, email \in Emails, project \in BOOLEAN, written \in {TRUE} :
          \E id \in StoreIds(p) : StoreLogin(p, id, email, project, written)
    \/ \E p \in Providers : \E id \in StoreIds(p) : StoreDelete(p, id)
    \/ \E t \in Instants : StoreTick(t)

\* the credential store with selects, refreshes, quota fetches, logins and
\* deletions in flight
SpecStore == StoreInit /\ [][StoreNext]_vars

\* one call of a batch route over the stored accounts
BatchNext ==
    \/ \E route \in BatchRoutes, n \in 0..MaxBatch, m \in 0..1 :
          \E needs \in [1..(n + m) -> BOOLEAN] : BatchStart(route, n, m, needs)
    \/ \E i \in 1..(MaxBatch + 1) : BatchAnswer(i)

SpecBatch == TranslateInit /\ [][BatchNext]_vars
(***************************************************************************)
(* Properties of the Account Rotator                                       *)
(***************************************************************************)
\* the step is a getXToken call on provider p
SelectStep(p) == ret'.op = "select" /\ ret'.provider = p
Succeeded(r) == r.op = "select" /\ r.result \notin TokenErrors

\* C2: when markFailed is called with the id of the currently sticky-bound
\* account, the next select on that provider does not return that id,
\* unless the pool has exactly one account.
C2_FailureForcesRotation ==
    [][\A p \in Providers :
         (SelectStep(p) /\ cleared[p] # Null /\ Len(accounts[p]) # 1
            /\ Succeeded(ret'))
         => ret'.result # cleared[p]]_vars

\* the sticky binding of p is set, younger than the lock window, and its
\* account is still in the store
BindingUsable(p) ==
    /\ lastUsed[p] # NoLock
    /\ now - lastUsed[p].time < lockWindowMs
    /\ InStore(p, lastUsed[p].id)

\* C5 as stated: every non-forced select made inside the lock window of a
\* binding whose account is still stored returns the bound account and does
\* not advance the rotation cursor.
C5_StickyReuseAlwaysReturns ==
    [][\A p \in Providers :
         (SelectStep(p) /\ ~ret'.force /\ BindingUsable(p))
         => (ret'.result = lastUsed[p].id /\ index'[p] = index[p])]_vars

\* C5 amended: such a select never advances the cursor; it returns the bound
\* account when the token refresh succeeds, and otherwise fails with the
\* refresh error leaving the binding as it was.
C5_StickyReuse ==
    [][\A p \in Providers :
         (SelectStep(p) /\ ~ret'.force /\ BindingUsable(p))
         => /\ index'[p] = index[p]
            /\ ret'.result \in {lastUsed[p].id, RefreshFailed}
            /\ ret'.result = RefreshFailed => lastUsed'[p] = lastUsed[p]
            /\ ret'.result # RefreshFailed => lastUsed'[p].id = lastUsed[p].id]_vars

\* a non-forced select reused the binding 59999 ms after it was set
C5_Witness ==
    /\ ret.op = "select" /\ ~ret.force /\ ~ret.rotated
    /\ ret.provider = "antigravity"
    /\ ret.result = lastUsed["antigravity"].id
    /\ now - boundAt["antigravity"] = 59999
    /\ Len(accounts["antigravity"]) >= 2

Count(s, x) == Cardinality({i \in 1..Len(s) : s[i] = x})
PosOf(s, x) == CHOOSE i \in 1..Len(s) : s[i] = x

\* C6: over N consecutive successful forced selects on a fixed pool of P
\* accounts each account is returned floor(N/P) or ceil(N/P) times, and the
\* accounts are visited in round-robin order of the pool enumeration.
C6_RoundRobinFair ==
    \A p \in Providers :
        LET P == Len(accounts[p])
            N == Len(run[p])
        IN  N > 0 =>
            /\ \A a \in Range(accounts[p]) :
                 /\ Count(run[p], a) >= N \div P
                 /\ Count(run[p], a) <= (N + P - 1) \div P
            /\ \A i \in 1..(N - 1) :
                 PosOf(accounts[p], run[p][i + 1])
                   = (PosOf(accounts[p], run[p][i]) % P) + 1

\* three consecutive forced selects over a pool of two accounts
C6_Witness ==
    /\ Len(accounts["antigravity"]) = 2
    /\ Len(run["antigravity"]) = 3

\* C7: a select that reuses the sticky account leaves the binding (its
\* timestamp included) unchanged, and a non-forced select made 60 s or more
\* after the rotation that created the binding rotates.
C7_TimestampOnlyOnRotation ==
    [][\A p \in Providers :
         /\ (SelectStep(p) /\ Succeeded(ret') /\ ~ret'.rotated)
              => lastUsed'[p] = lastUsed[p]
         /\ (SelectStep(p) /\ ~ret'.force /\ lastUsed[p] # NoLock
               /\ Len(accounts[p]) > 0
               /\ now - boundAt[p] >= lockWindowMs)
              => ret'.rotated]_vars

\* C10: a select on an empty pool fails with NoAccountsAvailable, for both
\* values of forceRotate, and changes no provider's cursor or binding.
C10_EmptyPool ==
    [][\A p \in Providers :
         (SelectStep(p) /\ Len(accounts[p]) = 0)
         => /\ ret'.result = NoAccounts
            /\ index' = index
            /\ lastUsed' = lastUsed]_vars

\* a forced select on the emptied pool of a provider that had a binding
C10_Witness ==
    /\ ret.op = "select" /\ ret.force /\ ret.result = NoAccounts
    /\ ret.provider = "antigravity"
    /\ lastUsed["antigravity"] # NoLock
    /\ index["antigravity"] > 0
\* a getXToken(force) call on provider p that does not reuse the sticky
\* account: forced, or no binding, or the window expired, or the bound
\* account is gone; with an empty pool nothing is selected
Rotates(p, force) ==
    /\ Len(accounts[p]) > 0
    /\ \/ force
       \/ lastUsed[p] = NoLock
       \/ now - lastUsed[p].time >= lockWindowMs
       \/ lastUsed[p].id \notin Range(accounts[p])

\* C29: the rotation cursor of a provider never decreases; a select that
\* rotates increases it by exactly 1 and chooses the account at position
\* (cursor mod pool size) of the pool as it is at that call; a select that
\* reuses the sticky account, markFailed, and every operation on the other
\* provider leave it unchanged.
C29_CursorMonotonic ==
    [][\A p \in Providers :
         /\ index'[p] >= index[p]
         /\ (ret'.op = "select" /\ ret'.provider = p) =>
               IF Rotates(p, ret'.force)
               THEN /\ index'[p] = index[p] + 1
                    /\ ret'.result \notin TokenErrors =>
                          ret'.result = accounts[p][(index[p] % Len(accounts[p])) + 1]
               ELSE index'[p] = index[p]
         /\ ~(ret'.op = "select" /\ ret'.provider = p) => index'[p] = index[p]]_vars

\* the third rotation over a pool of two wrapped around to the first account
C29_Witness ==
    /\ index["antigravity"] = 3
    /\ Len(accounts["antigravity"]) = 2
    /\ ret.op = "select" /\ ret.provider = "antigravity" /\ ret.rotated
    /\ ret.result = accounts["antigravity"][1]

(***************************************************************************)
(* Properties of the Retry/Failover Controller                             *)
(***************************************************************************)
\* an attempt after which no further attempt is due: it succeeded, or failed
\* with a 4xx upstream status other than 401, 403 and 429
EndsRequest(o) ==
    \/ o.kind = "ok"
    \/ /\ o.kind = "UpstreamError"
       /\ o.status >= 400 /\ o.status <= 499
       /\ o.status \notin {401, 403, 429}

TokenFailed(o) == o.kind \in TokenErrors
StatusesOf(os) == [i \in 1..Len(os) |-> os[i].status]

\* C1: with token selection succeeding, the number of attempts is the index
\* of the first attempt that succeeds or fails with a non-retryable, non-auth
\* status, and maxRetries when there is none; each attempt is one upstream
\* call, and a request whose last attempt failed ends in an error.
C1_RetryBound ==
    \A r \in Requests :
        LET os == hist[r].outcomes
            n  == Len(os)
        IN  (req[r].pc = "done" /\ n > 0 /\ \A i \in 1..n : ~TokenFailed(os[i]))
            => /\ n <= maxRetries
               /\ \A i \in 1..(n - 1) : ~EndsRequest(os[i])
               /\ EndsRequest(os[n]) \/ n = maxRetries
               /\ hist[r].calls = n
               /\ os[n].kind # "ok" => req[r].response.kind = "error"

\* an upstream that answered 500 three times with maxRetries = 3
C1_Witness ==
    \E r \in Requests :
        /\ req[r].pc = "done"
        /\ maxRetries = 3
        /\ StatusesOf(hist[r].outcomes) = <<500, 500, 500>>
        /\ hist[r].calls = 3
        /\ req[r].response.kind = "error"

\* C8: once a streaming response is being forwarded, the request makes no
\* further attempt, selection or upstream call, and a failure of the stream
\* ends it; an attempt is only ever started before a response was obtained.
C8_NoRetryAfterStreamStart ==
    [][\A r \in Requests :
         /\ req[r].pc = "stream"
              => /\ req'[r].pc \in {"stream", "done"}
                 /\ req'[r].retry = req[r].retry
                 /\ hist'[r] = hist[r]
                 /\ <<index, lastUsed>>' = <<index, lastUsed>>
         /\ req'[r].retry > req[r].retry
              => /\ req[r].pc \in {"select", "send", "mark"}
                 /\ req[r].response = NoResponse]_vars

\* a forwarded stream failed while attempts were left, and the request ended
C8_Witness ==
    \E r \in Requests :
        /\ req[r].pc = "done" /\ req[r].stream
        /\ req[r].body = "errored"
        /\ req[r].retry + 1 < maxRetries
        /\ req[r].response.kind = "sse"

\* C9: a request that ends in an error after at least one attempt surfaces
\* the error of its last attempt, with the upstream status as HTTP status
\* when that error is an upstream error.
C9_LastErrorSurfaces ==
    \A r \in Requests :
        LET os == hist[r].outcomes IN
        (req[r].pc = "done" /\ req[r].response.kind = "error" /\ os # <<>>)
        => /\ req[r].response.cause = os[Len(os)]
           /\ isUpstreamError(os[Len(os)])
                => req[r].response.status = os[Len(os)].status

\* upstream outcomes 500, 500, 429 with maxRetries = 3 surface as 429
C9_Witness ==
    \E r \in Requests :
        /\ req[r].pc = "done"
        /\ StatusesOf(hist[r].outcomes) = <<500, 500, 429>>
        /\ req[r].response.status = 429

\* C11: a request served while its provider's pool is empty makes no attempt
\* after the first one that failed with NoAccountsAvailable, and it is
\* answered with a status in 400..499.
C11_NoAccountsSurfacesAt4xx ==
    \A r \in Requests :
        LET os == hist[r].outcomes IN
        /\ \A i \in 1..(Len(os) - 1) : os[i].kind # NoAccounts
        /\ (req[r].pc = "done" /\ os # <<>> /\ os[Len(os)].kind = NoAccounts)
             => (req[r].response.status >= 400 /\ req[r].response.status <= 499)

\* the step takes request r from the route's entry into or past the handler
Accepted(r) == req[r].pc = "idle" /\ req'[r].pc # "idle"
\* the TokenManager's cursors and bindings and the credential store
RotationAndStore == <<index, lastUsed, accounts>>

\* C12: a request that reaches a handler with a missing or empty messages
\* field is answered with a 400 error at once: no selection, no refresh, no
\* upstream call is made for it, then or later, and the rotation state of
\* both providers and the credential store are left as they were.
C12_MessagesRequired ==
    [][\A r \in Requests :
         LET m == req'[r].messages IN
         (req'[r].provider # "none" /\ (~m.present \/ m.length = 0))
         => /\ req'[r].pc = "done"
            /\ req'[r].response.kind = "error"
            /\ req'[r].response.status = 400
            /\ hist'[r] = NoHist
            /\ RotationAndStore' = RotationAndStore]_vars

\* a streaming Codex request with `messages: []` was answered with 400
C12_Witness ==
    \E r \in Requests :
        /\ req[r].pc = "done" /\ req[r].stream /\ req[r].provider = "codex"
        /\ req[r].messages = [present |-> TRUE, length |-> 0]
        /\ req[r].response.status = 400
        /\ Len(accounts["codex"]) > 0

\* the header is the text of an allowed key, bare or after a Bearer scheme
CarriesAllowedKey(h) ==
    /\ h.present
    /\ \/ h.text \in cfgApiKeys
       \/ /\ Len(h.text) = 2
          /\ h.text[1] \in {"Bearer ", "bearer ", "BEARER "}
          /\ <<h.text[2]>> \in cfgApiKeys

\* C17: a request reaches a provider handler only if the allow-list is empty
\* or its Authorization header carries an allowed key; any other request is
\* answered with 401 and causes no selection and no upstream call.
C17_ApiKeyGate ==
    [][\A r \in Requests :
         Accepted(r) =>
            LET allowed == cfgApiKeys = {} \/ CarriesAllowedKey(req'[r].header) IN
            /\ req'[r].provider # "none" => allowed
            /\ ~allowed => /\ req'[r].pc = "done"
                           /\ req'[r].response.status = 401
                           /\ hist'[r] = NoHist
                           /\ RotationAndStore' = RotationAndStore]_vars

\* a request with a key that is not in the configured allow-list got a 401
C17_Witness ==
    \E r \in Requests :
        /\ cfgApiKeys # {}
        /\ req[r].header = HeaderOf(<<"Bearer ", "sk-2">>)
        /\ req[r].pc = "done"
        /\ req[r].response.status = 401
        /\ req[r].provider = "none"

\* the error caught by the latest attempt of r is an upstream 401 or 403
AfterAuthError(r) ==
    isUpstreamError(req[r].lastError) /\ isAuthError(req[r].lastError)

\* C20: in the non-streaming controller the catch of an attempt that failed
\* with 401 or 403 marks the account that attempt used (clearing its sticky
\* binding) and goes on to the next attempt when attempts remain; over a
\* pool of two or more accounts the next attempt uses a different account,
\* however much time passed while the upstream was answering.
C20_AuthErrorFailsOver ==
    [][\A r \in Requests :
         LET p == req[r].provider IN
         /\ req[r].pc = "mark"
              => /\ ret'.op = "markFailed"
                 /\ ret'.result = req[r].token
                 /\ lastUsed'[p].id # req[r].token
                 /\ req[r].retry + 1 < maxRetries => req'[r].pc = "select"
         /\ (/\ req[r].pc = "select" /\ ~req[r].stream /\ AfterAuthError(r)
             /\ req'[r].pc = "send" /\ Len(accounts[p]) >= 2)
              => req'[r].token # req[r].token]_vars

\* C21: when the catch of a failed attempt marks an account after an auth
\* error, the id it passes to markFailed is the id of the account whose
\* token that attempt used, and handling the auth error leaves the rotation
\* cursor where it was.
C21_MarksTheFailedAccount ==
    [][\A r \in Requests :
         (req[r].pc = "mark" /\ req'[r].pc # "mark") =>
            /\ ret'.op = "markFailed" => ret'.result = req[r].token
            /\ index' = index]_vars

\* the select(forceRotate) calls the shared state machine makes for a
\* sequence of attempt outcomes: one per attempt, forced after the first,
\* and the look-up of the account to mark after each auth error
RECURSIVE SharedSelects(_, _)
SharedSelects(os, i) ==
    IF i > Len(os) THEN <<>>
    ELSE <<i > 1>>
         \o (IF isUpstreamError(os[i]) /\ isAuthError(os[i]) THEN <<FALSE>> ELSE <<>>)
         \o SharedSelects(os, i + 1)

\* C22: for the outcomes of its attempts a request makes the same
\* select(forceRotate) calls, among them the one that looks up the account
\* to mark after an auth error, whether it is streaming or not.
C22_SameStateMachine ==
    \A r \in Requests :
        req[r].pc \in {"done", "stream"}
        => hist[r].selects = SharedSelects(hist[r].outcomes, 1)

\* no selection of request r failed on a token refresh
RefreshNeverFailed(r) ==
    \A i \in 1..Len(hist[r].outcomes) : hist[r].outcomes[i].kind # RefreshFailed

\* C30: the select of every attempt after the first is forced; with a pool
\* of two or more accounts and no refresh failure an attempt does not use
\* the account of the attempt before it, and when the request ends the
\* sticky binding is on the account of its last attempt.
C30_ForcedRotationPerAttempt ==
    [][\A r \in Requests :
         LET p == req[r].provider IN
         /\ (req[r].pc = "select" /\ req[r].retry > 0 /\ hist'[r] # hist[r])
              => (ret'.op = "select" /\ ret'.force)
         /\ (/\ req[r].pc = "select" /\ req[r].retry > 0 /\ req'[r].pc = "send"
             /\ Len(accounts[p]) >= 2 /\ RefreshNeverFailed(r))
              => req'[r].token # req[r].token
         /\ (/\ req[r].pc \in {"send", "mark", "stream"} /\ req'[r].pc = "done"
             /\ RefreshNeverFailed(r))
              => lastUsed'[p].id = req[r].token]_vars

(***************************************************************************)
(* Properties of the management surface                                    *)
(***************************************************************************)
\* the header is the text of the configured secret key, bare or as Bearer
CarriesSecret(h) ==
    /\ h.present
    /\ \/ h.text = cfgManagement.secretKey
       \/ /\ Len(h.text) = 2
          /\ h.text[1] \in {"Bearer ", "bearer ", "BEARER "}
          /\ <<h.text[2]>> = cfgManagement.secretKey

\* C18: with a management secret key configured, a management request
\* (account listing, deletion, bulk refresh, quota of one or of all accounts,
\* starting or completing an OAuth login) that does not present the key is
\* not executed: it is answered with an error, the credential store keeps
\* its accounts, nothing is saved and no upstream call is made.
C18_ManagementKeyRequired ==
    [][(/\ mgmt' # mgmt
        /\ cfgManagement.secretKey # Null
        /\ ~CarriesSecret(mgmt'.xKey) /\ ~CarriesSecret(mgmt'.authorization))
       => /\ mgmt'.status \in {401, 403}
          /\ mgmt'.upstream = 0
          /\ mgmt'.saves = 0
          /\ accounts' = accounts]_vars

(***************************************************************************)
(* Properties of the stream demultiplexer                                  *)
(***************************************************************************)
\* what parseSSEStream yields when the whole text arrives in a single read
SingleRead(text) == ReadChunk(ScannerInit, text).out

\* C3: whenever what has been delivered so far is a valid stream of
\* concatenated top-level JSON objects (short enough to stay under the buffer
\* ceiling), the objects yielded over the reads that delivered it, however
\* they split it, are the objects yielded when it arrives in a single read.
C3_SplitInvariance ==
    (JsonRead(sent).ok /\ Len(sent) <= BufferLimit)
        => yielded = SingleRead(sent)

\* the scanner's locals are those of a fresh parseSSEStream
ScannerClean(st) == [st EXCEPT !.finished = FALSE] = ScannerInit
\* what was delivered, and what was yielded, after the latest overflow reset
SentAfterReset == SubSeq(sent, resets.sentAt + 1, Len(sent))
YieldedAfterReset == SubSeq(yielded, resets.yieldedAt + 1, Len(yielded))

\* C4: a read that leaves more than the ceiling in the buffer leaves the
\* scanner in its clean initial state, whatever its state was, and the
\* well-formed top-level objects of the next read are all yielded.
C4_OverflowRestartsClean ==
    /\ (resets.count > 0 /\ resets.readsAfter = 0) => ScannerClean(dmx)
    /\ (resets.count > 0 /\ resets.readsAfter = 1 /\ JsonRead(SentAfterReset).ok)
           => YieldedAfterReset = JsonRead(SentAfterReset).objs


\* C23: after every read the buffer of unparsed input holds at most the
\* ceiling, in the line framing as in the JSON framing.
C23_BufferBounded == Len(dmx.buffer) <= BufferLimit

\* C24: once a read was processed in line mode, every later read of the
\* stream is processed in line mode, never by the brace-depth scanner.
C24_LineModeSticks ==
    [][(framing.detected /\ sent' # sent) => framing'.last = "lines"]_vars

(***************************************************************************)
(* Properties of the Translator and of the transform stream                *)
(***************************************************************************)
\* the content deltas of the chunks enqueued so far, concatenated
RECURSIVE ContentDeltas(_)
ContentDeltas(events) ==
    IF events = <<>> THEN <<>>
    ELSE (IF Head(events).kind = "chunk" /\ ~Head(events).content.isNull
          THEN Head(events).content.text ELSE <<>>)
         \o ContentDeltas(Tail(events))
\* the content parts of the fragments, concatenated in order
RECURSIVE PartsOf(_)
PartsOf(fragments) ==
    IF fragments = <<>> THEN <<>>
    ELSE (IF Head(fragments).candidates = <<>> THEN <<>>
          ELSE Head(fragments).candidates[1].parts)
         \o PartsOf(Tail(fragments))
\* the native response whose parts are those of the fragments
WholeResponse(fragments) ==
    NativeResponse(<<Candidate(PartsOf(fragments), Absent)>>)

\* C13 as stated: the concatenation of the content deltas of all chunks
\* emitted for a fragment sequence equals the content of the non-streaming
\* translation of the response made of the same parts.
C13_StreamEqualsWhole ==
    Content(ContentDeltas(ts.events))
        = translateFromAntigravity(WholeResponse(ts.fragments)).content

\* C13, amended: the concatenated content deltas are the text of the
\* non-streaming content, and the non-streaming content is null (where the
\* stream has the empty string) exactly when the response has a tool call
\* and no text.
C13_StreamEqualsWholeText ==
    LET whole == translateFromAntigravity(WholeResponse(ts.fragments))
    IN  /\ ContentDeltas(ts.events) = whole.content.text
        /\ whole.content.isNull
             <=> (whole.tool_calls # <<>> /\ ContentDeltas(ts.events) = <<>>)

C13_Witness ==
    /\ ts.status = "closed"
    /\ Len(ts.fragments) = 2
    /\ ContentDeltas(ts.events) = <<"a", "b", "b">>
    /\ \E i \in 1..Len(ts.events) :
          ts.events[i].kind = "chunk" /\ ts.events[i].content = Content(<<"a", "b">>)

\* the normalisation of the native reasons END_TURN, STOP, MAX_TOKENS, SAFETY
\* and of a string that is none of the known ones
StatedReasons == {"END_TURN", "STOP", "MAX_TOKENS", "SAFETY", "OTHER"}
NormalizedReason(reason) ==
    CASE reason \in {"END_TURN", "STOP"} -> "stop"
      [] reason = "MAX_TOKENS" -> "length"
      [] reason = "SAFETY" -> "content_filter"
      [] OTHER -> Null
FinishReasonOf(candidate, finish_reason) ==
    /\ ToolCallsOf(candidate.parts) # <<>> => finish_reason = "tool_calls"
    /\ ToolCallsOf(candidate.parts) = <<>> /\ candidate.finishReason \in StatedReasons
         => finish_reason = NormalizedReason(candidate.finishReason)

\* C14: END_TURN and STOP are normalised to stop, MAX_TOKENS to length,
\* SAFETY to content_filter and an unrecognised reason to null; a response
\* or a fragment with a tool call is given tool_calls whatever its native
\* reason, by translateFromAntigravity and by translateStreamChunk alike.
C14_FinishReasonNormalized ==
    /\ tr.op = "translateFromAntigravity" /\ tr.response.candidates # <<>>
         => FinishReasonOf(tr.response.candidates[1], tr.message.finish_reason)
    /\ tr.op = "translateStreamChunk" /\ tr.chunk # NoChunk
         => FinishReasonOf(tr.fragment.candidates[1], tr.chunk.finish_reason)

C14_Witness ==
    /\ tr.op = "translateStreamChunk"
    /\ tr.fragment.candidates # <<>>
    /\ tr.fragment.candidates[1].finishReason = "SAFETY"
    /\ tr.chunk.finish_reason = "content_filter"

DonePositions(events) == {i \in 1..Len(events) : events[i].kind = "done"}

\* C15: a transform stream that is closed holds exactly one [DONE] event, as
\* its last event; a [DONE] event is enqueued only once the upstream
\* fragments are exhausted, and nothing is enqueued after it.
C15_EndsWithOneDone ==
    /\ [](/\ ts.status = "closed"
             => /\ Cardinality(DonePositions(ts.events)) = 1
                /\ ts.events[Len(ts.events)].kind = "done"
          /\ DonePositions(ts.events) # {}
             => /\ ts.upstream = "exhausted"
                /\ DonePositions(ts.events) = {Len(ts.events)})
    /\ [][DonePositions(ts.events) # {} => ts'.events = ts.events]_vars

C15_Witness ==
    /\ ts.status = "closed"
    /\ Len(ts.fragments) = 2
    /\ Len(ts.events) = 5
    /\ ts.events[5].kind = "done"

\* effort words, and the ways of reading modelId as base(effort)
IsWord(chars) == chars # <<>> /\ \A i \in 1..Len(chars) : chars[i] \in WordChars
EffortForms(modelId) ==
    {k \in 2..Len(modelId) :
        /\ modelId[k] = "("
        /\ modelId[Len(modelId)] = ")"
        /\ IsWord(SubSeq(modelId, k + 1, Len(modelId) - 1))}

\* C16: for a model id base(effort) the Codex request has model = base and
\* reasoning effort = effort; for any other model id the request keeps the
\* model id and the reasoning member the client sent, if any; gpt-5.2(high)
\* gives model gpt-5.2 and effort high.
C16_EffortSuffix ==
    /\ tr.op = "translateToCodexRequest" =>
         LET id == tr.request.model IN
         /\ \A k \in EffortForms(id) :
               /\ tr.codex.model = SubSeq(id, 1, k - 1)
               /\ tr.codex.reasoning = Reasoning(SubSeq(id, k + 1, Len(id) - 1))
         /\ EffortForms(id) = {} =>
               /\ tr.codex.model = id
               /\ tr.codex.reasoning = tr.request.reasoning
    /\ translateToCodexRequest([model |-> Gpt52 \o <<"(">> \o High \o <<")">>,
                                reasoning |-> NoReasoning])
         = [model |-> Gpt52, reasoning |-> Reasoning(High)]

C16_Witness ==
    /\ tr.op = "translateToCodexRequest"
    /\ tr.request.model = Gpt52 \o <<"(">> \o High \o <<")">>
    /\ tr.request.reasoning = Reasoning(<<"x">>)
    /\ tr.codex = [model |-> Gpt52, reasoning |-> Reasoning(High)]

\* a native turn read back: its role, and its parts through the response
\* translation
BackRole(role) == IF role = "model" THEN "assistant" ELSE "user"
TurnBack(role, parts) ==
    ChatMessage(role,
        translateFromAntigravity(NativeResponse(<<Candidate(parts, Absent)>>)).content.text)
TurnsBack(native) ==
    [i \in 1..Len(native.contents) |->
        TurnBack(BackRole(native.contents[i].role), native.contents[i].parts)]
InstructionsBack(native) ==
    IF native.systemInstruction.present
    THEN <<TurnBack("system", native.systemInstruction.parts)>> ELSE <<>>
IsSystem(message) == message.role = "system"
NotSystem(message) == message.role # "system"
FirstOf(messages) == IF messages = <<>> THEN <<>> ELSE <<Head(messages)>>
\* the conversation is plain text only: no tool calls, no tool messages
PlainOnly(messages) == Range(messages) \subseteq PlainMessages

HasCandidate(fragment) == fragment.candidates # <<>>
\* no fragment carried a native finish reason
NoNativeFinish(fragments) ==
    \A i \in 1..Len(fragments) :
        HasCandidate(fragments[i]) => fragments[i].candidates[1].finishReason = Absent
\* the chunks enqueued, without the [DONE] line
ChunksOf(events) == SelectSeq(events, LAMBDA e : e.kind = "chunk")
FinishPositions(chunks) ==
    {i \in 1..Len(chunks) : chunks[i].finish_reason # Null}

\* C25: a stream that closed without error and in which no fragment carried
\* a native finish reason, whatever the number of fragments, ends with the
\* terminal chunk (empty delta, finish_reason stop) right before [DONE].
C25_TerminalChunk ==
    (ts.status = "closed" /\ NoNativeFinish(ts.fragments))
    => LET n == Len(ts.events) IN
       /\ n >= 2
       /\ ts.events[n] = DoneEvent
       /\ ts.events[n - 1] = createFinalChunk

\* C26: in a stream that closed without error and carries at least one
\* chunk, exactly one chunk has a non-null finish_reason, and it is the last
\* chunk before [DONE].
C26_OneFinishReason ==
    (ts.status = "closed" /\ ChunksOf(ts.events) # <<>>)
    => FinishPositions(ChunksOf(ts.events)) = {Len(ChunksOf(ts.events))}

\* C27: a fragment whose candidate has a finish reason and no content parts
\* is translated to a chunk that carries the normalised finish reason.
C27_FinishReasonWithoutParts ==
    (/\ tr.op = "translateStreamChunk"
     /\ HasCandidate(tr.fragment)
     /\ tr.fragment.candidates[1].parts = <<>>
     /\ tr.fragment.candidates[1].finishReason \in StatedReasons \ {"OTHER"})
    => /\ tr.chunk # NoChunk
       /\ tr.chunk.finish_reason
            = NormalizedReason(tr.fragment.candidates[1].finishReason)

\* the fragment has no text, no reasoning text, no tool call, no finish reason
EmptyFragment(fragment) ==
    HasCandidate(fragment) =>
        LET candidate == fragment.candidates[1] IN
        /\ candidate.finishReason = Absent
        /\ \A i \in 1..Len(candidate.parts) :
              /\ candidate.parts[i].functionCall = "none"
              /\ candidate.parts[i].hasText => candidate.parts[i].text = <<>>
\* the chunk carries content, reasoning, tool calls or a finish reason
Carries(chunk) ==
    \/ ~chunk.content.isNull /\ chunk.content.text # <<>>
    \/ ~chunk.reasoning_content.isNull /\ chunk.reasoning_content.text # <<>>
    \/ chunk.tool_calls # <<>>
    \/ chunk.finish_reason # Null
\* what a step enqueued, without the initial chunk (the role marker)
Translated(before, after) ==
    SelectSeq(SubSeq(after, Len(before) + 1, Len(after)),
              LAMBDA e : e.role # "assistant")

\* C28: for each fragment the transform stream enqueues at most one
\* translated chunk, none when the fragment has no text, no reasoning text,
\* no tool call and no finish reason, and every translated chunk carries
\* content, reasoning_content, tool_calls or a non-null finish_reason.
C28_AtMostOneChunk ==
    [][ts'.fragments # ts.fragments =>
         LET fragment == ts'.fragments[Len(ts'.fragments)]
             chunks == Translated(ts.events, ts'.events)
         IN  /\ Len(chunks) <= 1
             /\ EmptyFragment(fragment) => chunks = <<>>
             /\ \A i \in 1..Len(chunks) : Carries(chunks[i])]_vars

\* an empty fragment was suppressed and the next one was translated
C28_Witness ==
    /\ Len(ts.fragments) = 2
    /\ EmptyFragment(ts.fragments[1]) /\ HasCandidate(ts.fragments[1])
    /\ ts.fragments[1].candidates[1].parts # <<>>
    /\ Len(ts.events) = 2
    /\ Carries(ts.events[2])

(***************************************************************************)
(* Properties of the Credential Store and the Token Refresher              *)
(***************************************************************************)
\* the step in which proc calls ensureValidToken on the account id
Ensures(proc, id) ==
    /\ ops[proc] = IdleOp
    /\ did'.proc = proc
    /\ did'.id = id
    /\ did'.op \in {"refresh", "save", "return", "throw"}

\* the decision of ensureValidToken: unchanged and no call of the token
\* endpoint above now + buffer, a refresh at or below it
BufferRule(proc, p, id) ==
    Ensures(proc, id) =>
        IF objects[id].expiry > nowSeconds + bufferSeconds(p)
        THEN started' = started /\ objects' = objects
        ELSE started' = started + 1

\* getXToken meeting an access token that is past its real expiry time
\* attempts a refresh
ExpiredIsRefreshed(proc, id) ==
    (Ensures(proc, id) /\ objects[id].until < nowSeconds) => started' = started + 1

\* C31: ensureValidToken returns the account unchanged, without calling the
\* token endpoint, when the expiry time is later than now + buffer (300 s,
\* 5 days for Codex) and refreshes it at or before now + buffer; this holds
\* for every stored account, those made by the OAuth callbacks included, so
\* that select never hands out an access token past its real expiry time
\* without having attempted a refresh.
C31_RefreshBeforeExpiry ==
    [][\A p \in Providers : \A id \in StoreIds(p) :
          /\ \A proc \in Procs : BufferRule(proc, p, id)
          /\ \A proc \in Handlers : ExpiredIsRefreshed(proc, id)]_vars

\* the token fields of an account: access_token, expiry_timestamp, project_id
TokenFields(account) == <<account.access, account.expiry, account.project>>
\* the steps that run saveXAccount or deleteXAccount for the account id
StoreWrites(id) ==
    /\ did'.id = id
    /\ did'.op \in {"save", "return", "login", "delete"}

\* C32: the account records held by the store change only through the
\* store's save and delete operations; the Rotator and the Refresher work on
\* copies, so from the start of ensureValid until the following save (and
\* for ever when refresh or persistence fails) the record readable from the
\* store keeps its token fields.
C32_StoreIsSingleWriter ==
    [][\A p \in Providers : \A id \in StoreIds(p) :
          (InStore(p, id) /\ TokenFields(objects'[id]) # TokenFields(objects[id]))
             => StoreWrites(id)]_vars

\* the stored expiry timestamp of an account does not decrease in a step
ExpiryGrows(p, id) ==
    (InStore(p, id) /\ InStore(p, id)') => objects'[id].expiry >= objects[id].expiry
\* the stored access token is the one of the latest-started refresh among
\* those that completed
LatestRefreshWins(p, id) ==
    (InStore(p, id) /\ finished[id] > 0) => objects[id].access = finished[id]

\* C33: under any interleaving of concurrent refresh-then-save operations on
\* one account the token set left in the store is never older than the one
\* it replaced: the stored expiry timestamp never decreases and the stored
\* access token is the one issued by the most recently started refresh that
\* completed.
C33_NeverOlderToken ==
    /\ [][\A p \in Providers : \A id \in StoreIds(p) : ExpiryGrows(p, id)]_vars
    /\ [](\A p \in Providers : \A id \in StoreIds(p) : LatestRefreshWins(p, id))

\* the accounts the operator deleted are not in the Map nor in a file
\* (a login makes a new id: a deleted id is never logged in again)
StaysDeleted(p, id) ==
    id \in removed =>
        /\ ~InStore(p, id)
        /\ id \notin LoadedIds(p)

\* C34: an account removed by the operator's delete never reappears in the
\* store unless it is added again by an OAuth login: no interleaving of the
\* delete with a select / refresh in flight, a quota fetch or the refresh of
\* the account list re-inserts it, and select never returns a deleted account.
C34_DeletedStaysDeleted ==
    /\ \A p \in Providers : \A id \in StoreIds(p) : StaysDeleted(p, id)
    /\ did.op = "return" => did.id \notin removed

\* what loadXAccounts would read from the files equals what the Map holds
DiskEqualsMemory(p) ==
    /\ LoadedIds(p) = Range(accounts[p])
    /\ \A id \in LoadedIds(p) \cap Range(accounts[p]) :
          TokenFields(LoadedAccount(p, id)) = TokenFields(objects[id])

\* C35: after any sequence of save and delete operations (none of them in
\* flight) the accounts that would be loaded from disk at the next start are
\* the accounts held in memory, same ids and same token state, also when two
\* accounts of one provider have the same email address.
C35_DiskMatchesMemory ==
    (\A proc \in Procs : ops[proc] = IdleOp)
        => \A p \in Providers : DiskEqualsMemory(p)

(***************************************************************************)
(* Properties of the batch routes                                          *)
(***************************************************************************)
\* C36: a batch operation over many accounts (bulk quota fetch, token
\* refresh over all accounts of a provider) never has more than 5
\* per-account operations in flight at the same time, whatever the number of
\* accounts.
C36_FanOutCapped == Cardinality(InFlight(batch)) <= 5

(***************************************************************************)
(* Termination of the retry loops                                          *)
(***************************************************************************)
\* the request is inside a retry loop
Attempting(r) == req[r].pc \in {"select", "send", "mark"}
\* the request has left its retry loop: response returned (Done, or the
\* stream handed over) or error surfaced (Failed)
Settled(r) == req[r].pc \in {"stream", "done"}

\* C37: every upstream call of the controller is bounded in time: when the
\* upstream never answers the attempt ends with a retryable transport error,
\* so that under fairness every request eventually reaches Done or Failed,
\* after at most maxRetries attempts.
C37_RequestsSettle ==
    /\ \A r \in Requests : Attempting(r) ~> Settled(r)
    /\ [](\A r \in Requests : hist[r].calls <= maxRetries)

(***************************************************************************)
(* Properties of the translation of tool messages                          *)
(***************************************************************************)
\* the tool messages that begin a maximal run of consecutive tool messages
RunStarts(messages) ==
    SelectSeq([i \in 1..Len(messages) |-> i],
              LAMBDA i : /\ messages[i].role = "tool"
                         /\ (i = 1 \/ messages[i - 1].role # "tool"))
\* the number of tool messages of the run that begins at i
RunLength(messages, i) ==
    Cardinality({n \in i..Len(messages) :
                    \A m \in i..n : messages[m].role = "tool"})
\* the assistant messages before tool message i with a tool call of its id
Holders(messages, i) ==
    {k \in 1..(i - 1) :
        /\ messages[k].role = "assistant"
        /\ \E c \in 1..Len(messages[k].tool_calls) :
              messages[k].tool_calls[c].id = messages[i].tool_call_id}
\* the function name the result of tool message i is to carry
NameFor(messages, i) ==
    IF Holders(messages, i) = {} THEN "unknown_function"
    ELSE LET k == CHOOSE h \in Holders(messages, i) :
                     \A o \in Holders(messages, i) : o <= h
             calls == messages[k].tool_calls
             c == CHOOSE m \in 1..Len(calls) :
                     /\ calls[m].id = messages[i].tool_call_id
                     /\ \A o \in 1..(m - 1) :
                           calls[o].id # messages[i].tool_call_id
         IN  calls[c].name
\* the native turns that carry function results
FunctionTurns(native) ==
    SelectSeq(native.contents, LAMBDA turn : turn.role = "function")

\* C38: in request translation every maximal run of k consecutive tool
\* messages becomes exactly one native turn with k function-result parts, in
\* order; each part's function name is the name of the tool call with the
\* matching id in the nearest preceding assistant message that has one, and
\* the sentinel unknown_function when no earlier assistant message has one.
C38_ToolRunsBecomeOneTurn ==
    tr.op = "translateToAntigravity" =>
        LET runs == RunStarts(tr.messages)
            turns == FunctionTurns(tr.native)
        IN  /\ Len(turns) = Len(runs)
            /\ Len(tr.native.contents) =
                 Len(runs) + Cardinality({i \in 1..Len(tr.messages) :
                                tr.messages[i].role \notin {"system", "tool"}})
            /\ \A r \in 1..Len(runs) :
                  turns[r].parts =
                    [k \in 1..RunLength(tr.messages, runs[r]) |->
                        ResponsePart(NameFor(tr.messages, runs[r] + k - 1))]
\* two assistant messages hold the id x; a run of two tool messages follows,
\* the second without an id
C38_Witness ==
    /\ tr.op = "translateToAntigravity"
    /\ tr.messages = <<AssistantCalls(<<>>, <<ToolCall("x", "f")>>),
                       AssistantCalls(<<"a">>, <<ToolCall("x", "g"),
                                                 ToolCall("y", "h")>>),
                       ToolMessage("x"), ToolMessage(NoId)>>
    /\ Len(tr.native.contents) = 3
    /\ tr.native.contents[3] =
         GeminiContent("function", <<ResponsePart("g"),
                                     ResponsePart("unknown_function")>>)

(***************************************************************************)
(* Properties of the content of a translated response                      *)
(***************************************************************************)
\* the parts of the first candidate of the response translated
AnsweredParts ==
    IF tr.response.candidates = <<>> THEN <<>>
    ELSE tr.response.candidates[1].parts
\* the response carries a tool call
HasToolCall(parts) == \E i \in 1..Len(parts) : parts[i].functionCall # "none"
\* the texts of the parts that are not reasoning, one after the other
RECURSIVE PlainText(_)
PlainText(parts) ==
    IF parts = <<>> THEN <<>>
    ELSE PlainText(SubSeq(parts, 1, Len(parts) - 1))
         \o (IF parts[Len(parts)].hasText /\ ~parts[Len(parts)].thought
             THEN parts[Len(parts)].text ELSE <<>>)

\* C39: in non-streaming response translation the message content is null
\* exactly when the response has a tool call and no text, the empty string
\* when it has neither, and otherwise the concatenation of the non-reasoning
\* text parts; it is never null when there is no tool call.
C39_ContentNullOnlyWithToolCalls ==
    tr.op = "translateFromAntigravity" =>
        LET text == PlainText(AnsweredParts)
            calls == HasToolCall(AnsweredParts)
        IN  /\ tr.message.content.isNull <=> (calls /\ text = <<>>)
            /\ (~calls /\ text = <<>>) => tr.message.content = Content(<<>>)
            /\ text # <<>> => tr.message.content = Content(text)
            /\ ~calls => ~tr.message.content.isNull
\* a response with reasoning text only, and no tool call: content is ""
C39_Witness ==
    /\ tr.op = "translateFromAntigravity"
    /\ AnsweredParts = <<TextPart(<<"t">>, TRUE)>>
    /\ tr.message.content = Content(<<>>)
    /\ tr.message.tool_calls = <<>>

(***************************************************************************)
(* Properties of the JSON-framing scanner                                  *)
(***************************************************************************)
\* C40: in every reachable state of the JSON-framing scanner the brace depth
\* is at least 0: a closing brace met outside any object leaves the depth
\* at 0, so that later well-formed top-level objects are still yielded.
C40_BraceDepthNonNegative == dmx.braceDepth >= 0

====
